---------------------------- MODULE Spec2Model ----------------------------
(***************************************************************************)
(* Model of the icon catalog (icon_provider/store.py, IconStore) and of    *)
(* the font facade it imports from (icon_provider/ufont.py, Font).         *)
(*                                                                         *)
(* Time is counted in ticks, Sub ticks to the second: a file's st_mtime is *)
(* a tick count, the fonts.modified column holds whole seconds.            *)
(* An svg blob is modelled by what it is computed from: the glyph and the  *)
(* contents of the source files, the latter named by the mtime they had    *)
(* when they were read.                                                    *)
(***************************************************************************)
EXTENDS Integers, Sequences, FiniteSets, TLC

\* ------------------------------------------------------------------ bounds
\* ticks per second (resolution of st_mtime below the second)
Sub == 2
\* the latest mtime a source file takes
MaxTime == 3
\* how many times the source files change
MaxChanges == 2
\* codepoints of a cmap are 0..MaxCp
MaxCp == 2
\* maxp.numGlyphs is at most MaxGlyphs; so is a glyph id named by a cmap group
MaxGlyphs == 2
\* groups of a format-12 cmap subtable
MaxGroups == 1
\* glyphs listed by a post table, and strings appended to it
MaxPost == 2
\* entries of the table directory of a font file
MaxTables == 3
\* bytes in the view of a Reader
MaxLen == 3
\* encoding records of a cmap table
MaxRecords == 3
\* groups of a format-12 subtable, segments of a format-4 subtable, of a
\* cmap table
MaxSegs == 2
\* composite glyphs a call of build_outline nests before Python raises
\* RecursionError
RecursionLimit == 3
\* points of a simple glyph whose flags are one byte for each point
MaxPoint == 4
\* runs of flags of a simple glyph, and the count a run repeats its flag by
MaxRuns == 2
MaxRepeat == 3
\* components of a composite glyph
MaxComponents == 2

\* ------------------------------------------------------- the font facade
\* A Font is the parsed view of a font file:
\*   font_type   "ttf" | "otf"                       (Font.__init__)
\*   glyph_count maxp.numGlyphs                      (Font.__init__)
\*   has_glyf    both glyf and loca are in the table directory
\*   cmap_ok     parse_cmap finds a supported subtable (it raises otherwise)
\*   groups      the format-12 cmap groups <<start, end, glyph_id>>
\*   post_version, post_index, post_names
\*               the post table: its version, the name_index of each glyph
\*               it lists, and the Pascal strings appended to it

Max(S) == CHOOSE x \in S : \A y \in S : y <= x

\* dict.get(key): the value as a one-element set, {} for None
Get(map, key) == IF key \in DOMAIN map THEN {map[key]} ELSE {}

\* dict[key] = value
Put(map, key, value) ==
    [k \in (DOMAIN map) \cup {key} |-> IF k = key THEN value ELSE map[k]]

EmptyMap == [k \in {} |-> 0]

\* ------------------------------------------------------ Font.parse_cmap
\* A cmap table as parse_cmap reads it:
\*   records    the encoding records <<platform_id, encoding_id,
\*              subtable_offset>>, in file order
\*   subtables  the subtable at each offset a record names:
\*              [format, groups, segments], groups the <<start, end,
\*              glyph_id>> of format 12, segments the <<end_code, start_code,
\*              id_delta, id_range_offset>> of format 4

\* the code of the last segment of a format-4 subtable
LastCode == 65535
\* glyph ids of format 4 are taken modulo this
U16 == 65536

\* the loop over the encoding records that takes the first record of
\* platform 0 with encoding 4 or 3
RECURSIVE UnicodeTableOffsetFirst(_, _)
UnicodeTableOffsetFirst(unicode_table_offset, records) ==
    IF records = << >> THEN unicode_table_offset
    ELSE LET platform_id == Head(records)[1]
             encoding_id == Head(records)[2]
             subtable_offset == Head(records)[3]
         IN UnicodeTableOffsetFirst(
                IF unicode_table_offset = 0 /\ platform_id = 0
                       /\ encoding_id \in {3, 4}
                THEN subtable_offset
                ELSE unicode_table_offset,
                Tail(records))

\* the loop over the encoding records: unicode_table_offset after it
RECURSIVE UnicodeTableOffset(_, _)
UnicodeTableOffset(unicode_table_offset, records) ==
    IF records = << >> THEN unicode_table_offset
    ELSE LET platform_id == Head(records)[1]
             encoding_id == Head(records)[2]
             subtable_offset == Head(records)[3]
         IN UnicodeTableOffset(
                IF platform_id = 0 /\ encoding_id = 4 THEN subtable_offset
                ELSE IF unicode_table_offset = 0 /\ platform_id = 0
                           /\ encoding_id = 3
                THEN subtable_offset
                ELSE unicode_table_offset,
                Tail(records))

\* the loop over the codepoints of one format-4 segment; it ends at the
\* first codepoint when id_range_offset is not 0
RECURSIVE CmapSegment(_, _, _, _, _)
CmapSegment(cmap, codepoint, end_code, id_delta, id_range_offset) ==
    IF codepoint > end_code \/ id_range_offset # 0 THEN cmap
    ELSE LET glyph_id == (codepoint + id_delta) % U16
         IN CmapSegment([glyph_id_to_codepoint |->
                             Put(cmap.glyph_id_to_codepoint, glyph_id,
                                 codepoint),
                         codepoint_to_glyph_id |->
                             Put(cmap.codepoint_to_glyph_id, codepoint,
                                 glyph_id)],
                        codepoint + 1, end_code, id_delta, id_range_offset)

\* the loop over the segments of a format-4 subtable; it ends at the first
\* segment whose start and end are both 0xFFFF
RECURSIVE CmapSegments(_, _)
CmapSegments(cmap, segments) ==
    IF segments = << >> THEN cmap
    ELSE LET end_code == Head(segments)[1]
             start_code == Head(segments)[2]
         IN IF end_code = start_code /\ start_code = LastCode THEN cmap
            ELSE CmapSegments(CmapSegment(cmap, start_code, end_code,
                                          Head(segments)[3],
                                          Head(segments)[4]),
                              Tail(segments))

\* the loop over one format-12 group that leaves glyph_id as it is
RECURSIVE CmapGroupSameGlyph(_, _, _, _)
CmapGroupSameGlyph(cmap, codepoint, codepoint_end, glyph_id) ==
    IF codepoint > codepoint_end THEN cmap
    ELSE CmapGroupSameGlyph(
             [glyph_id_to_codepoint |->
                  Put(cmap.glyph_id_to_codepoint, glyph_id, codepoint),
              codepoint_to_glyph_id |->
                  Put(cmap.codepoint_to_glyph_id, codepoint, glyph_id)],
             codepoint + 1, codepoint_end, glyph_id)

\* CmapTable({}, {}) filled by the loop over one format-12 group
RECURSIVE CmapGroup(_, _, _, _)
CmapGroup(cmap, codepoint, codepoint_end, glyph_id) ==
    IF codepoint > codepoint_end THEN cmap
    ELSE CmapGroup([glyph_id_to_codepoint |->
                        Put(cmap.glyph_id_to_codepoint, glyph_id, codepoint),
                    codepoint_to_glyph_id |->
                        Put(cmap.codepoint_to_glyph_id, codepoint, glyph_id)],
                   codepoint + 1, codepoint_end, glyph_id + 1)

RECURSIVE CmapGroups(_, _)
CmapGroups(cmap, groups) ==
    IF groups = << >> THEN cmap
    ELSE CmapGroups(CmapGroup(cmap, Head(groups)[1], Head(groups)[2],
                              Head(groups)[3]),
                    Tail(groups))

\* Font.parse_cmap, format 12
parse_cmap(font) ==
    CmapGroups([glyph_id_to_codepoint |-> EmptyMap,
                codepoint_to_glyph_id |-> EmptyMap], font.groups)

\* Font.parse_cmap on a cmap table: [raised, offset, cmap], offset the
\* unicode_table_offset the records gave
ParseCmap(table) ==
    LET offset == UnicodeTableOffset(0, table.records)
        empty == [glyph_id_to_codepoint |-> EmptyMap,
                  codepoint_to_glyph_id |-> EmptyMap]
        failed == [raised |-> "ValueError", offset |-> offset, cmap |-> empty]
    IN IF offset = 0 THEN failed
       ELSE LET subtable == table.subtables[offset]
            IN IF subtable.format = 12
               THEN [raised |-> "none", offset |-> offset,
                     cmap |-> CmapGroups(empty, subtable.groups)]
               ELSE IF subtable.format = 4
               THEN [raised |-> "none", offset |-> offset,
                     cmap |-> CmapSegments(empty, subtable.segments)]
               ELSE failed

\* Font.parse_glyf: one Glyph per pair of consecutive loca offsets, its
\* glyph_id the index of the pair; None ({}) without a glyf or loca table
parse_glyf(font) ==
    IF font.has_glyf
    THEN {[i \in 1..font.glyph_count |-> [glyph_id |-> i - 1]]}
    ELSE {}

\* GlyfTable.get with the upper bound one too low
GlyfGetShort(glyphs, glyph_id) ==
    IF 0 <= glyph_id /\ glyph_id < Len(glyphs) - 1
    THEN {glyphs[glyph_id + 1]} ELSE {}

\* GlyfTable.get
GlyfGet(glyphs, glyph_id) ==
    IF 0 <= glyph_id /\ glyph_id < Len(glyphs)
    THEN {glyphs[glyph_id + 1]} ELSE {}

\* Font.glyph_by_codepoint: [raised, glyph], glyph a set of at most one Glyph
glyph_by_codepoint(font, codepoint) ==
    IF font.font_type # "ttf" THEN [raised |-> TRUE, glyph |-> {}]
    ELSE IF parse_glyf(font) = {} THEN [raised |-> FALSE, glyph |-> {}]
    ELSE IF ~font.cmap_ok THEN [raised |-> TRUE, glyph |-> {}]
    ELSE LET glyf == CHOOSE g \in parse_glyf(font) : TRUE
             glyph_id == Get(parse_cmap(font).codepoint_to_glyph_id, codepoint)
         IN IF glyph_id = {} THEN [raised |-> FALSE, glyph |-> {}]
            ELSE [raised |-> FALSE,
                  glyph |-> GlyfGet(glyf, CHOOSE g \in glyph_id : TRUE)]

\* the first name_index that names an appended string
FirstCustomName == 258

\* Font.parse_post: [raised, glyph_id_to_name]
parse_post(font) ==
    IF font.post_version # 2
    THEN [raised |-> FALSE, glyph_id_to_name |-> EmptyMap]
    ELSE LET glyph_id_to_index ==
                 [g \in {g \in 0..(Len(font.post_index) - 1) :
                            font.post_index[g + 1] >= FirstCustomName}
                    |-> font.post_index[g + 1] - FirstCustomName]
             indexes == {glyph_id_to_index[g] : g \in DOMAIN glyph_id_to_index}
         IN IF indexes = {}
            THEN [raised |-> TRUE, glyph_id_to_name |-> EmptyMap]
            ELSE IF Max(indexes) + 1 > Len(font.post_names)
            THEN [raised |-> TRUE, glyph_id_to_name |-> EmptyMap]
            ELSE [raised |-> FALSE,
                  glyph_id_to_name |->
                      [g \in DOMAIN glyph_id_to_index |->
                          font.post_names[glyph_id_to_index[g] + 1]]]

\* the loop of codepoint_by_name without the test for codepoint 0
RECURSIVE NameLoopKeepZero(_, _, _, _, _)
NameLoopKeepZero(name_to_codepoint, glyph_id, glyph_count, cmap, post) ==
    IF glyph_id >= glyph_count THEN name_to_codepoint
    ELSE LET codepoint == Get(cmap.glyph_id_to_codepoint, glyph_id)
             name == Get(post.glyph_id_to_name, glyph_id)
         IN IF name = {} \/ codepoint = {}
            THEN NameLoopKeepZero(name_to_codepoint, glyph_id + 1,
                                  glyph_count, cmap, post)
            ELSE NameLoopKeepZero(Put(name_to_codepoint,
                                      CHOOSE n \in name : TRUE,
                                      CHOOSE c \in codepoint : TRUE),
                                  glyph_id + 1, glyph_count, cmap, post)

\* the loop of codepoint_by_name over range(glyph_id, glyph_count)
RECURSIVE NameLoop(_, _, _, _, _)
NameLoop(name_to_codepoint, glyph_id, glyph_count, cmap, post) ==
    IF glyph_id >= glyph_count THEN name_to_codepoint
    ELSE LET codepoint == Get(cmap.glyph_id_to_codepoint, glyph_id)
             name == Get(post.glyph_id_to_name, glyph_id)
         IN IF name = {} \/ codepoint = {} \/ codepoint = {0}
            THEN NameLoop(name_to_codepoint, glyph_id + 1, glyph_count,
                          cmap, post)
            ELSE NameLoop(Put(name_to_codepoint, CHOOSE n \in name : TRUE,
                              CHOOSE c \in codepoint : TRUE),
                          glyph_id + 1, glyph_count, cmap, post)

\* Font.codepoint_by_name: [raised, name_to_codepoint]
codepoint_by_name(font) ==
    IF ~font.cmap_ok \/ parse_post(font).raised
    THEN [raised |-> TRUE, name_to_codepoint |-> EmptyMap]
    ELSE [raised |-> FALSE,
          name_to_codepoint |->
              NameLoop(EmptyMap, 0, font.glyph_count, parse_cmap(font),
                       parse_post(font))]

\* --------------------------------------------------------------- Reader
\* A Reader is [data, pos]: the bytes of its view (self.data) and the cursor
\* of the BytesIO over them (self.file).

Min(a, b) == IF a <= b THEN a ELSE b

\* data[start:end] of a memoryview, for start and end that are not negative
Slice(data, start, end) ==
    IF start >= Min(end, Len(data)) THEN << >>
    ELSE SubSeq(data, start + 1, Min(end, Len(data)))

\* bytes.decode(errors="backslashreplace") of bytes that are below 0x80 or
\* 0xFF: a byte below 0x80 is the character of that code, 0xFF is not valid
\* UTF-8 and becomes the four characters \xff
RECURSIVE Decode(_)
Decode(bytes) ==
    IF bytes = << >> THEN << >>
    ELSE (IF Head(bytes) < 128 THEN <<Head(bytes)>> ELSE <<92, 120, 102, 102>>)
         \o Decode(Tail(bytes))

\* Reader.seek(target), target not negative
seek(reader, target) == [data |-> reader.data, pos |-> target]

\* Reader.advance(size), size not negative
advance(reader, size) == [data |-> reader.data, pos |-> reader.pos + size]

\* Reader.view(start, end)
reader_view(reader, start, end) == [data |-> Slice(reader.data, start, end), pos |-> 0]

\* Reader.read(size, at), at a set of at most one offset (empty for None):
\* [reader, raised, value]. BytesIO.read returns the bytes that are left
\* when they are fewer than size, and leaves a cursor beyond the end where
\* it is.
read(reader, size, at) ==
    LET from == IF at = {} THEN reader.pos ELSE CHOOSE a \in at : TRUE
        bytes == Slice(reader.data, from, from + size)
    IN [reader |-> [data |-> reader.data, pos |-> from + Len(bytes)],
        raised |-> "none", value |-> bytes]

\* Reader.read_string(size, at)
read_string(reader, size, at) ==
    [reader |-> read(reader, size, at).reader, raised |-> "none",
     value |-> Decode(read(reader, size, at).value)]

\* Reader.read_u8: self.file.read(1)[0]
read_u8(reader) ==
    LET r == read(reader, 1, {})
    IN IF r.value = << >>
       THEN [reader |-> r.reader, raised |-> "IndexError", value |-> << >>]
       ELSE [reader |-> r.reader, raised |-> "none", value |-> <<r.value[1]>>]

\* struct.Struct(format).size of the formats the typed reads use
StructSize(format) ==
    CASE format = ">b" -> 1
      [] format \in {">H", ">h"} -> 2
      [] format \in {">I", ">i"} -> 4
      [] format \in {">Q", ">q"} -> 8

\* Reader.read_struct(format, at): the value is left as the bytes unpacked
\* and the format they are unpacked by
read_struct(reader, format, at) ==
    LET r == read(reader, StructSize(format), at)
    IN IF Len(r.value) # StructSize(format)
       THEN [reader |-> r.reader, raised |-> "struct.error", value |-> << >>]
       ELSE [reader |-> r.reader, raised |-> "none",
             value |-> <<format, r.value>>]

\* the typed reads built on read_struct, and the format each one unpacks
TypedReads ==
    {"read_i8", "read_u16", "read_i16", "read_u32", "read_i32", "read_u64",
     "read_i64", "read_fixed", "read_f2dot14", "read_longdatetime"}

FormatOf(name) ==
    CASE name = "read_i8" -> ">b"
      [] name = "read_u16" -> ">H"
      [] name \in {"read_i16", "read_f2dot14"} -> ">h"
      [] name = "read_u32" -> ">I"
      [] name \in {"read_i32", "read_fixed"} -> ">i"
      [] name = "read_u64" -> ">Q"
      [] name \in {"read_i64", "read_longdatetime"} -> ">q"

\* ------------------------------------------------------ Font.__init__
\* sfntVersion of a font with TrueType outlines, and with CFF outlines
SfntTtf == 65536
SfntOtf == 1330926671
\* magicNumber of the head table
HeadMagic == 1594834165

\* A font file as Font.__init__ reads it:
\*   sfnt_version  the first u32 of the file
\*   directory     the tags of the table directory, in file order
\*   maxp_len      the length of the maxp table, in bytes
\*   glyph_count   numGlyphs of maxp
\*   magic         magicNumber of head

\* self.tables after the loop over the table directory: its keys
Tables(directory) == {directory[i] : i \in 1..Len(directory)}

\* parse_head without its assert: "none", or the exception raised
parse_head_unchecked(data, tables) ==
    IF "head" \notin tables THEN "KeyError" ELSE "none"

\* Font.parse_head, called by __init__: "none", or the exception raised
parse_head(data, tables) ==
    IF "head" \notin tables THEN "KeyError"
    ELSE IF data.magic # HeadMagic THEN "AssertionError"
    ELSE "none"

\* Font.parse_name, called by __init__: "none", or the exception raised
parse_name(data, tables) ==
    IF "name" \notin tables THEN "KeyError" ELSE "none"

\* Font.__init__: [raised, font]; raised is "none" or the exception, font
\* the set of the constructed Font, empty when the constructor raised
FontNew(data) ==
    LET tables == Tables(data.directory)
        failed(e) == [raised |-> e, font |-> {}]
    IN IF data.sfnt_version \notin {SfntTtf, SfntOtf} THEN failed("ValueError")
       ELSE IF "maxp" \notin tables THEN failed("KeyError")
       ELSE IF data.maxp_len < 6 THEN failed("struct.error")
       ELSE IF parse_name(data, tables) # "none"
       THEN failed(parse_name(data, tables))
       ELSE IF parse_head(data, tables) # "none"
       THEN failed(parse_head(data, tables))
       ELSE [raised |-> "none",
             font |-> {[font_type |-> IF data.sfnt_version = SfntTtf
                                      THEN "ttf" ELSE "otf",
                        glyph_count |-> data.glyph_count,
                        tables |-> tables]}]

\* --------------------------------------------------------- cached_table
\* font.cached_tables is a map from a name to what the parser of that name
\* returned. A parsed table is named by the parser that made it; the calls
\* below are on a Font that is [font_type, glyph_count, tables], as
\* Font.__init__ leaves it.
None == [kind |-> "None"]
Table(name) == [kind |-> name]

\* font.cached_tables.get(name)
CachedGet(cache, name) == IF name \in DOMAIN cache THEN cache[name] ELSE None

\* what a parser that makes no call returns: [cache, ran, raised, table];
\* ran is the set of the parsers whose body ran
Returns(cache, table) ==
    [cache |-> cache, ran |-> {}, raised |-> "none", table |-> table]
Raises(cache, ran, e) ==
    [cache |-> cache, ran |-> ran, raised |-> e, table |-> None]

\* cached_parse_table(font) of cached_table(name): r is what the body
\* parse_table(font) does when it is run on cache
cached_parse_table(name, r, cache) ==
    IF CachedGet(cache, name) # None
    THEN Returns(cache, CachedGet(cache, name))
    ELSE IF r.raised # "none" THEN Raises(r.cache, r.ran \cup {name}, r.raised)
    ELSE [cache |-> Put(r.cache, name, r.table), ran |-> r.ran \cup {name},
          raised |-> "none", table |-> r.table]

\* a parser that begins with self.tables[tag]
Required(font, cache, tag, r) ==
    IF tag \notin font.tables THEN Raises(cache, {}, "KeyError") ELSE r

\* Font.parse_loca under cached_table("loca")
cached_parse_loca(font, cache) ==
    cached_parse_table(
        "loca",
        Returns(cache, IF "loca" \in font.tables THEN Table("loca") ELSE None),
        cache)

\* Font.parse_glyf under cached_table("glyf")
cached_parse_glyf(font, cache) ==
    cached_parse_table(
        "glyf",
        IF "glyf" \notin font.tables THEN Returns(cache, None)
        ELSE LET loca == cached_parse_loca(font, cache)
             IN [cache |-> loca.cache, ran |-> loca.ran, raised |-> "none",
                 table |-> IF loca.table = None THEN None ELSE Table("glyf")],
        cache)

\* Font.parse_hhea under cached_table("hhea")
cached_parse_hhea(font, cache) ==
    cached_parse_table(
        "hhea", Required(font, cache, "hhea", Returns(cache, Table("hhea"))),
        cache)

\* Font.parse_hmtx under cached_table("hmtx")
cached_parse_hmtx(font, cache) ==
    cached_parse_table(
        "hmtx",
        Required(font, cache, "hmtx",
                 LET hhea == cached_parse_hhea(font, cache)
                 IN IF hhea.raised # "none" THEN hhea
                    ELSE [cache |-> hhea.cache, ran |-> hhea.ran,
                          raised |-> "none", table |-> Table("hmtx")]),
        cache)

\* Font.parse_cmap under cached_table("cmap")
cached_parse_cmap(font, cache) ==
    cached_parse_table(
        "cmap", Required(font, cache, "cmap", Returns(cache, Table("cmap"))),
        cache)

\* Font.parse_post under cached_table("post")
cached_parse_post(font, cache) ==
    cached_parse_table(
        "post", Required(font, cache, "post", Returns(cache, Table("post"))),
        cache)

\* Font.codepoint_by_name under cached_table("name_to_codpoint")
cached_codepoint_by_name(font, cache) ==
    cached_parse_table(
        "name_to_codpoint",
        LET cmap == cached_parse_cmap(font, cache)
            post == cached_parse_post(font, cmap.cache)
        IN IF cmap.raised # "none" THEN cmap
           ELSE IF post.raised # "none"
           THEN Raises(post.cache, cmap.ran \cup post.ran, post.raised)
           ELSE [cache |-> post.cache, ran |-> cmap.ran \cup post.ran,
                 raised |-> "none", table |-> Table("name_to_codpoint")],
        cache)

\* the lazy parsers of a Font, by the name they are cached under
LazyNames ==
    {"loca", "glyf", "hhea", "hmtx", "cmap", "post", "name_to_codpoint"}

Lazy(name, font, cache) ==
    CASE name = "loca" -> cached_parse_loca(font, cache)
      [] name = "glyf" -> cached_parse_glyf(font, cache)
      [] name = "hhea" -> cached_parse_hhea(font, cache)
      [] name = "hmtx" -> cached_parse_hmtx(font, cache)
      [] name = "cmap" -> cached_parse_cmap(font, cache)
      [] name = "post" -> cached_parse_post(font, cache)
      [] name = "name_to_codpoint" -> cached_codepoint_by_name(font, cache)

\* ---------------------------------------------------------------- numbers
\* A coordinate or a matrix entry is a Python number whose fraction, if it
\* has one, is a count of halves, quarters, ...: <<n, e>> stands for
\* n / 2^e, with n odd or e = 0. Sums and products of such numbers are exact
\* in Python's floats as they are here.
RECURSIVE Pow2(_)
Pow2(e) == IF e = 0 THEN 1 ELSE 2 * Pow2(e - 1)

RECURSIVE Num(_, _)
Num(n, e) == IF e > 0 /\ n % 2 = 0 THEN Num(n \div 2, e - 1) ELSE <<n, e>>

Whole(n) == <<n, 0>>

\* the count of 2^-e that a is, for e not below a's own
Count(a, e) == a[1] * Pow2(e - a[2])

Add(a, b) ==
    LET e == IF a[2] >= b[2] THEN a[2] ELSE b[2]
    IN Num(Count(a, e) + Count(b, e), e)

Mul(a, b) == Num(a[1] * b[1], a[2] + b[2])

Less(a, b) ==
    LET e == IF a[2] >= b[2] THEN a[2] ELSE b[2]
    IN Count(a, e) < Count(b, e)

\* ------------------------------------------------------- Point, Transform
Point(px, py) == [x |-> px, y |-> py]

\* a lerp of ratio 0: the point itself
lerp_point(point, other) == point

\* a lerp of ratio 1: the other point
lerp_other(point, other) == other

\* Point.lerp(other, 0.5)
lerp(point, other) ==
    Point(Add(Mul(point.x, Num(1, 1)), Mul(other.x, Num(1, 1))),
          Add(Mul(point.y, Num(1, 1)), Mul(other.y, Num(1, 1))))

Transform(a00, a01, a02, a10, a11, a12) ==
    [m00 |-> a00, m01 |-> a01, m02 |-> a02,
     m10 |-> a10, m11 |-> a11, m12 |-> a12]

\* Transform.identity
identity ==
    Transform(Whole(1), Whole(0), Whole(0), Whole(0), Whole(1), Whole(0))

\* Transform.__matmul__ with the operands taken in the other order
matmul_swapped(s, o) ==
    Transform(Add(Mul(o.m00, s.m00), Mul(o.m01, s.m10)),
              Add(Mul(o.m00, s.m01), Mul(o.m01, s.m11)),
              Add(Add(Mul(o.m00, s.m02), Mul(o.m01, s.m12)), o.m02),
              Add(Mul(o.m10, s.m00), Mul(o.m11, s.m10)),
              Add(Mul(o.m10, s.m01), Mul(o.m11, s.m11)),
              Add(Add(Mul(o.m10, s.m02), Mul(o.m11, s.m12)), o.m12))

\* Transform.__matmul__: self @ other
matmul(s, o) ==
    Transform(Add(Mul(s.m00, o.m00), Mul(s.m01, o.m10)),
              Add(Mul(s.m00, o.m01), Mul(s.m01, o.m11)),
              Add(Add(Mul(s.m00, o.m02), Mul(s.m01, o.m12)), s.m02),
              Add(Mul(s.m10, o.m00), Mul(s.m11, o.m10)),
              Add(Mul(s.m10, o.m01), Mul(s.m11, o.m11)),
              Add(Add(Mul(s.m10, o.m02), Mul(s.m11, o.m12)), s.m12))

\* Transform.__call__
Apply(tr, point) ==
    Point(Add(Add(Mul(point.x, tr.m00), Mul(point.y, tr.m01)), tr.m02),
          Add(Add(Mul(point.x, tr.m10), Mul(point.y, tr.m11)), tr.m12))

\* ------------------------------------------------- the reads of a number
\* struct.unpack of the one or two bytes of ">b", ">H" and ">h"
Unpack(format, bytes) ==
    CASE format = ">b" ->
           IF bytes[1] >= 128 THEN bytes[1] - 256 ELSE bytes[1]
      [] format = ">H" -> bytes[1] * 256 + bytes[2]
      [] format = ">h" ->
           IF bytes[1] >= 128 THEN bytes[1] * 256 + bytes[2] - 65536
           ELSE bytes[1] * 256 + bytes[2]

\* a typed read of one or two bytes with its value as an integer
ReadInt(reader, name) ==
    LET Value(r) ==
            [reader |-> r.reader, raised |-> r.raised,
             value |-> IF r.raised = "none"
                       THEN Unpack(r.value[1], r.value[2]) ELSE 0]
    IN Value(read_struct(reader, FormatOf(name), {}))

\* Reader.read_i8, read_u16, read_i16
read_i8(reader) == ReadInt(reader, "read_i8")

read_u16(reader) == ReadInt(reader, "read_u16")

read_i16(reader) == ReadInt(reader, "read_i16")

\* Reader.read_f2dot14: read_i16() / 16384.0
read_f2dot14(reader) ==
    LET Value(r) ==
            [reader |-> r.reader, raised |-> r.raised,
             value |-> Num(r.value, 14)]
    IN Value(read_i16(reader))

\* Reader.read_u8 with its value as an integer
ReadByte(reader) ==
    LET Value(r) ==
            [reader |-> r.reader, raised |-> r.raised,
             value |-> IF r.raised = "none" THEN r.value[1] ELSE 0]
    IN Value(read_u8(reader))

\* flag & mask for a mask of one bit
Bit(flag, mask) == (flag \div mask) % 2 = 1

\* a value put before the values of the reads that followed its own
Before(first, rest) ==
    [reader |-> rest.reader, raised |-> rest.raised,
     value |-> <<first>> \o rest.value]

\* ---------------------------------------------------------------- Glyph
\* A Glyph is [glyph_id, contours_count, data]: data are the bytes of its
\* _reader, the glyph's bytes after the ten of contours_count and the box.
\* Every outline of a glyph starts with _reader.seek(0), so each is read
\* from a reader of its own.
ON_CURVE_POINT == 1
X_SHORT_VECTOR == 2
Y_SHORT_VECTOR == 4
REPEAT_FLAG == 8
X_SAME_OR_POS == 16
Y_SAME_OR_POS == 32

\* endpoints = [reader.read_u16() for _ in range(count)]:
\* [reader, raised, value]
RECURSIVE ReadEndpoints(_, _)
ReadEndpoints(reader, count) ==
    LET Rest(r) ==
            IF r.raised # "none"
            THEN [reader |-> r.reader, raised |-> r.raised, value |-> << >>]
            ELSE Before(r.value, ReadEndpoints(r.reader, count - 1))
    IN IF count = 0
       THEN [reader |-> reader, raised |-> "none", value |-> << >>]
       ELSE Rest(read_u16(reader))

\* the bytes of the x or y buffer that repeats points of a flag take
BufferLen(flag, repeats, short, same) ==
    IF Bit(flag, short) THEN repeats
    ELSE IF ~Bit(flag, same) THEN repeats * 2
    ELSE 0

\* the flag loop with the whole run appended before the run is measured
\* against flags_left; st is [reader, raised, flags, flags_left, x_len,
\* y_len, broke]
RECURSIVE ReadFlags(_)
ReadFlags(st) ==
    LET Run(flag, c) ==
            IF c.raised # "none"
            THEN [st EXCEPT !.reader = c.reader, !.raised = c.raised]
            ELSE IF 1 + c.value > st.flags_left
            THEN [st EXCEPT
                    !.reader = c.reader, !.broke = TRUE,
                    !.flags = @ \o [i \in 1..1 + c.value |-> flag]]
            ELSE ReadFlags(
                   [st EXCEPT
                      !.reader = c.reader,
                      !.flags = @ \o [i \in 1..1 + c.value |-> flag],
                      !.flags_left = @ - (1 + c.value),
                      !.x_len = @ + BufferLen(flag, 1 + c.value,
                                              X_SHORT_VECTOR, X_SAME_OR_POS),
                      !.y_len = @ + BufferLen(flag, 1 + c.value,
                                              Y_SHORT_VECTOR, Y_SAME_OR_POS)])
        Repeats(f) ==
            IF f.raised # "none"
            THEN [st EXCEPT !.reader = f.reader, !.raised = f.raised]
            ELSE IF Bit(f.value, REPEAT_FLAG)
            THEN Run(f.value, ReadByte(f.reader))
            ELSE Run(f.value,
                     [reader |-> f.reader, raised |-> "none", value |-> 0])
    IN IF st.flags_left <= 0 \/ st.broke \/ st.raised # "none" THEN st
       ELSE Repeats(ReadByte(st.reader))

\* x_diff or y_diff of a point: [reader, raised, value]
ReadDiff(reader, flag, short, same) ==
    LET Signed(r) ==
            [reader |-> r.reader, raised |-> r.raised,
             value |-> IF Bit(flag, same) THEN r.value ELSE 0 - r.value]
    IN IF Bit(flag, short) THEN Signed(ReadByte(reader))
       ELSE IF ~Bit(flag, same) THEN read_i16(reader)
       ELSE [reader |-> reader, raised |-> "none", value |-> 0]

\* a GlyphPoint put before the points that follow it
Yield(point, rest) ==
    [raised |-> rest.raised, points |-> <<point>> \o rest.points]

\* the point loop over flags[index + 1 ..]: [raised, points], points the
\* GlyphPoints yielded before the loop ended or raised
RECURSIVE ReadPoints(_, _, _, _, _, _, _)
ReadPoints(flags, index, x_reader, y_reader, px, py, endpoints) ==
    LET Point2(dx, dy) ==
            IF dy.raised # "none"
            THEN [raised |-> dy.raised, points |-> << >>]
            ELSE Yield([coord |-> Point(Whole(px + dx.value),
                                        Whole(py + dy.value)),
                        on_curve |-> Bit(flags[index + 1], ON_CURVE_POINT),
                        last |-> index \in endpoints],
                       ReadPoints(flags, index + 1, dx.reader, dy.reader,
                                  px + dx.value, py + dy.value, endpoints))
        Point1(dx) ==
            IF dx.raised # "none"
            THEN [raised |-> dx.raised, points |-> << >>]
            ELSE Point2(dx, ReadDiff(y_reader, flags[index + 1],
                                     Y_SHORT_VECTOR, Y_SAME_OR_POS))
    IN IF index >= Len(flags) THEN [raised |-> "none", points |-> << >>]
       ELSE Point1(ReadDiff(x_reader, flags[index + 1],
                            X_SHORT_VECTOR, X_SAME_OR_POS))

\* Glyph._simple_outline_points: [raised, points]
simple_outline_points(glyph) ==
    LET Points(e, st) ==
            IF st.raised # "none"
            THEN [raised |-> st.raised, points |-> << >>]
            ELSE ReadPoints(st.flags, 0,
                            [data |-> Slice(glyph.data, st.reader.pos,
                                            st.reader.pos + st.x_len),
                             pos |-> 0],
                            [data |-> Slice(glyph.data,
                                            st.reader.pos + st.x_len,
                                            st.reader.pos + st.x_len
                                            + st.y_len),
                             pos |-> 0],
                            0, 0, {e.value[i] : i \in 1..Len(e.value)})
        Flags(e, n) ==
            IF n.raised # "none" THEN [raised |-> n.raised, points |-> << >>]
            ELSE Points(e, ReadFlags([reader |-> advance(n.reader, n.value),
                                      raised |-> "none", flags |-> << >>,
                                      flags_left |-> e.value[Len(e.value)] + 1,
                                      x_len |-> 0, y_len |-> 0,
                                      broke |-> FALSE]))
        Instructions(e) ==
            IF e.raised # "none" THEN [raised |-> e.raised, points |-> << >>]
            ELSE IF e.value[Len(e.value)] + 1 = 1
            THEN [raised |-> "none", points |-> << >>]
            ELSE Flags(e, read_u16(e.reader))
    IN IF glyph.contours_count = 0 THEN [raised |-> "none", points |-> << >>]
       ELSE Instructions(ReadEndpoints([data |-> glyph.data, pos |-> 0],
                                       glyph.contours_count))

\* a call of the OutlineBuilder: move_to, line_to, quad_to or close with
\* the points it is given
Cmd(op, pts) == [op |-> op, pts |-> pts]

\* the one element of a set of one
The(s) == CHOOSE e \in s : TRUE

\* one turn of the loop of Glyph._simple_outline. st is [first_on_curve,
\* first_off_curve, last_off_curve, cmds]: each of the three a set of at
\* most one Point (empty for None), cmds the calls made of the builder.
OutlineTurn(st, point, tr) ==
    LET To(p) == Apply(tr, p)
        Closed(b) ==
            [first_on_curve |-> {}, first_off_curve |-> {},
             last_off_curve |-> {},
             cmds |->
               (IF b.first_on_curve = {} THEN b.cmds
                ELSE IF b.first_off_curve # {}
                THEN b.cmds \o <<Cmd("quad_to",
                                     <<To(The(b.first_off_curve)),
                                       To(The(b.first_on_curve))>>)>>
                ELSE IF b.last_off_curve # {}
                THEN b.cmds \o <<Cmd("quad_to",
                                     <<To(The(b.last_off_curve)),
                                       To(The(b.first_on_curve))>>)>>
                ELSE b.cmds \o <<Cmd("line_to",
                                     <<To(The(b.first_on_curve))>>)>>)
               \o <<Cmd("close", << >>)>>]
        Last(a) ==
            IF ~point.last THEN a
            ELSE IF a.first_off_curve # {} /\ a.last_off_curve # {}
            THEN Closed([a EXCEPT
                           !.last_off_curve = {},
                           !.cmds = @ \o <<Cmd("quad_to",
                               <<To(The(a.last_off_curve)),
                                 To(lerp(The(a.last_off_curve),
                                         The(a.first_off_curve)))>>)>>])
            ELSE Closed(a)
    IN Last(
         IF st.first_on_curve = {}
         THEN IF point.on_curve
              THEN [st EXCEPT
                      !.first_on_curve = {point.coord},
                      !.cmds = @ \o <<Cmd("move_to", <<To(point.coord)>>)>>]
              ELSE IF st.first_off_curve # {}
              THEN [st EXCEPT
                      !.first_on_curve =
                         {lerp(The(st.first_off_curve), point.coord)},
                      !.last_off_curve = {point.coord},
                      !.cmds = @ \o <<Cmd("move_to",
                          <<To(lerp(The(st.first_off_curve),
                                    point.coord))>>)>>]
              ELSE [st EXCEPT !.first_off_curve = {point.coord}]
         ELSE IF st.last_off_curve # {}
         THEN IF point.on_curve
              THEN [st EXCEPT
                      !.last_off_curve = {},
                      !.cmds = @ \o <<Cmd("quad_to",
                          <<To(The(st.last_off_curve)),
                            To(point.coord)>>)>>]
              ELSE [st EXCEPT
                      !.last_off_curve = {point.coord},
                      !.cmds = @ \o <<Cmd("quad_to",
                          <<To(The(st.last_off_curve)),
                            To(lerp(The(st.last_off_curve),
                                    point.coord))>>)>>]
         ELSE IF point.on_curve
         THEN [st EXCEPT
                 !.cmds = @ \o <<Cmd("line_to", <<To(point.coord)>>)>>]
         ELSE [st EXCEPT !.last_off_curve = {point.coord}])

\* a loop that leaves the last point out
RECURSIVE OutlineLoopShort(_, _, _, _)
OutlineLoopShort(st, points, index, tr) ==
    IF index >= Len(points) THEN st
    ELSE OutlineLoopShort(OutlineTurn(st, points[index], tr), points,
                          index + 1, tr)

\* the loop of Glyph._simple_outline over points[index ..]
RECURSIVE OutlineLoop(_, _, _, _)
OutlineLoop(st, points, index, tr) ==
    IF index > Len(points) THEN st
    ELSE OutlineLoop(OutlineTurn(st, points[index], tr), points, index + 1, tr)

\* Glyph._simple_outline: [raised, cmds], cmds the calls made of the builder
\* before the outline ended or raised
simple_outline(glyph, tr) ==
    LET Outline(r) ==
            [raised |-> r.raised,
             cmds |-> OutlineLoop([first_on_curve |-> {},
                                   first_off_curve |-> {},
                                   last_off_curve |-> {}, cmds |-> << >>],
                                  r.points, 1, tr).cmds]
    IN Outline(simple_outline_points(glyph))

ARG_1_AND_2_ARE_WORDS == 1
ARGS_ARE_XY_VALUES == 2
WE_HAVE_A_SCALE == 8
MORE_COMPONENTS == 32
WE_HAVE_AN_X_AND_Y_SCALE == 64
WE_HAVE_A_TWO_BY_TWO == 128

\* the typed reads that parse the transformation of a component, in the
\* order they are made
TransformReads(flag) ==
    (IF ~Bit(flag, ARGS_ARE_XY_VALUES) THEN << >>
     ELSE IF Bit(flag, ARG_1_AND_2_ARE_WORDS)
     THEN <<"read_i16", "read_i16">>
     ELSE <<"read_i8", "read_i8">>)
    \o (IF Bit(flag, WE_HAVE_A_TWO_BY_TWO)
        THEN <<"read_f2dot14", "read_f2dot14", "read_f2dot14",
               "read_f2dot14">>
        ELSE IF Bit(flag, WE_HAVE_AN_X_AND_Y_SCALE)
        THEN <<"read_f2dot14", "read_f2dot14">>
        ELSE IF Bit(flag, WE_HAVE_A_SCALE) THEN <<"read_f2dot14">>
        ELSE << >>)

\* the reads of names made one after the other: [reader, raised, value],
\* value the numbers read
RECURSIVE ReadAll(_, _)
ReadAll(reader, names) ==
    LET Rest(r) ==
            IF r.raised # "none"
            THEN [reader |-> r.reader, raised |-> r.raised, value |-> << >>]
            ELSE Before(r.value, ReadAll(r.reader, Tail(names)))
        AsNumber(r) == [r EXCEPT !.value = Whole(@)]
    IN IF names = << >>
       THEN [reader |-> reader, raised |-> "none", value |-> << >>]
       ELSE IF Head(names) = "read_f2dot14" THEN Rest(read_f2dot14(reader))
       ELSE Rest(AsNumber(ReadInt(reader, Head(names))))

\* the Transform ts of a component: [reader, raised, value]
ReadTransform(reader, flag) ==
    LET Ts(r, args, m02, m12) ==
            [reader |-> r.reader, raised |-> r.raised,
             value |->
               IF r.raised # "none" THEN identity
               ELSE IF Bit(flag, WE_HAVE_A_TWO_BY_TWO)
               THEN Transform(r.value[args + 1], r.value[args + 3], m02,
                              r.value[args + 2], r.value[args + 4], m12)
               ELSE IF Bit(flag, WE_HAVE_AN_X_AND_Y_SCALE)
               THEN Transform(r.value[args + 1], Whole(0), m02,
                              Whole(0), r.value[args + 2], m12)
               ELSE IF Bit(flag, WE_HAVE_A_SCALE)
               THEN Transform(r.value[args + 1], Whole(0), m02,
                              Whole(0), r.value[args + 1], m12)
               ELSE Transform(Whole(1), Whole(0), m02,
                              Whole(0), Whole(1), m12)]
        Args(r) ==
            IF r.raised = "none" /\ Bit(flag, ARGS_ARE_XY_VALUES)
            THEN Ts(r, 2, r.value[1], r.value[2])
            ELSE Ts(r, 0, Whole(0), Whole(0))
    IN Args(ReadAll(reader, TransformReads(flag)))

\* the calls of a child put before the calls of the components after it
Then(child, rest) ==
    [raised |-> rest.raised, cmds |-> child.cmds \o rest.cmds]

\* Glyph.build_outline(builder, tr) of a glyph of the table glyf, and the
\* loop of Glyph._composite_outline from where reader stands: [raised, cmds].
\* depth counts the composite glyphs the call is nested in; Python raises
\* RecursionError when the nesting passes its recursion limit.
RECURSIVE build_outline(_, _, _, _)
RECURSIVE composite_outline(_, _, _, _)
build_outline(glyf, glyph, tr, depth) ==
    IF glyph.contours_count >= 0 THEN simple_outline(glyph, tr)
    ELSE IF depth >= RecursionLimit
    THEN [raised |-> "RecursionError", cmds |-> << >>]
    ELSE composite_outline(glyf, [data |-> glyph.data, pos |-> 0], tr, depth)

composite_outline(glyf, reader, tr, depth) ==
    LET Next_(more, ts, child) ==
            IF child.raised # "none" \/ ~more THEN child
            ELSE Then(child, composite_outline(glyf, ts.reader, tr, depth))
        Child(more, glyph, ts) ==
            IF ts.raised # "none"
            THEN [raised |-> ts.raised, cmds |-> << >>]
            ELSE Next_(more, ts,
                       build_outline(glyf, glyph, matmul(tr, ts.value),
                                     depth + 1))
        Component(flag, glyph_id) ==
            IF glyph_id.raised # "none"
            THEN [raised |-> glyph_id.raised, cmds |-> << >>]
            ELSE IF GlyfGet(glyf, glyph_id.value) = {}
            THEN IF Bit(flag, MORE_COMPONENTS)
                 THEN composite_outline(glyf, glyph_id.reader, tr, depth)
                 ELSE [raised |-> "none", cmds |-> << >>]
            ELSE Child(Bit(flag, MORE_COMPONENTS),
                       The(GlyfGet(glyf, glyph_id.value)),
                       ReadTransform(glyph_id.reader, flag))
        Flag(flag) ==
            IF flag.raised # "none"
            THEN [raised |-> flag.raised, cmds |-> << >>]
            ELSE Component(flag.value, read_u16(flag.reader))
    IN Flag(read_u16(reader))

\* BBoxBuilder._extend: box is a set of at most one [min, max]
Extend(box, p) ==
    LET Wider(b) ==
            {[min |-> Point(IF Less(p.x, b.min.x) THEN p.x ELSE b.min.x,
                            IF Less(p.y, b.min.y) THEN p.y ELSE b.min.y),
              max |-> Point(IF Less(b.max.x, p.x) THEN p.x ELSE b.max.x,
                            IF Less(b.max.y, p.y) THEN p.y ELSE b.max.y)]}
    IN IF box = {} THEN {[min |-> p, max |-> p]} ELSE Wider(The(box))

\* box extended by pts[index ..]
RECURSIVE ExtendAll(_, _, _)
ExtendAll(box, pts, index) ==
    IF index > Len(pts) THEN box
    ELSE ExtendAll(Extend(box, pts[index]), pts, index + 1)

\* BBoxBuilder after the calls cmds[index ..]: line_to and quad_to extend
\* the box by their points, move_to and close pass
RECURSIVE BBoxBuilder(_, _, _)
BBoxBuilder(box, cmds, index) ==
    IF index > Len(cmds) THEN box
    ELSE IF cmds[index].op \in {"line_to", "quad_to"}
    THEN BBoxBuilder(ExtendAll(box, cmds[index].pts, 1), cmds, index + 1)
    ELSE BBoxBuilder(box, cmds, index + 1)

\* the box of the coordinates of points[index ..] added to box
RECURSIVE PointsBox(_, _, _)
PointsBox(box, points, index) ==
    IF index > Len(points) THEN box
    ELSE PointsBox(Extend(box, points[index].coord), points, index + 1)

\* Glyph.bbox: [raised, box], box a set of at most one [min, max]
bbox(glyf, glyph) ==
    LET Built(r) ==
            [raised |-> r.raised,
             box |-> IF r.raised = "none" THEN BBoxBuilder({}, r.cmds, 1)
                     ELSE {}]
        Spanned(r) ==
            [raised |-> r.raised,
             box |-> IF r.raised = "none" THEN PointsBox({}, r.points, 1)
                     ELSE {}]
    IN IF glyph.contours_count < 0
       THEN Built(build_outline(glyf, glyph, identity, 0))
       ELSE IF glyph.contours_count = 0 THEN [raised |-> "none", box |-> {}]
       ELSE Spanned(simple_outline_points(glyph))

\* ----------------------------------------------------- SVGOutlineBuilder
\* the default of precision
Precision == 2

\* 10 to the power k
RECURSIVE Pow10(_)
Pow10(k) == IF k = 0 THEN 1 ELSE 10 * Pow10(k - 1)

\* round(v, precision) of a float v: [neg, units], the sign of v and the
\* count of units of 10^-precision nearest to |v|, the even one of two
\* that are as near (round works on the exact value of the float). A
\* negative v of less than half a unit gives -0.0: neg with 0 units.
Round(v, precision) ==
    LET Nearest(whole, rest, den) ==
            IF 2 * rest > den \/ (2 * rest = den /\ whole % 2 = 1)
            THEN whole + 1 ELSE whole
        Units(num, den) == Nearest(num \div den, num % den, den)
    IN [neg |-> v[1] < 0,
        units |-> Units((IF v[1] < 0 THEN 0 - v[1] ELSE v[1])
                        * Pow10(precision), Pow2(v[2]))]

\* x >= 0 of a rounded x: -0.0 >= 0 holds
NotNegative(r) == ~r.neg \/ r.units = 0

\* the digits of a natural number
RECURSIVE Digits(_)
Digits(k) ==
    LET digit == <<"0", "1", "2", "3", "4", "5", "6", "7", "8", "9">>
    IN IF k < 10 THEN <<digit[k + 1]>>
       ELSE Digits(k \div 10) \o <<digit[(k % 10) + 1]>>

\* the digits of k in a field of width places, zeros in front
RECURSIVE Places(_, _)
Places(k, width) ==
    IF width = 0 THEN << >>
    ELSE Places(k \div 10, width - 1) \o Digits(k % 10)

\* s without the zeros at its end
RECURSIVE Stripped(_)
Stripped(s) ==
    IF s # << >> /\ s[Len(s)] = "0" THEN Stripped(SubSeq(s, 1, Len(s) - 1))
    ELSE s

\* f"{x:g}" of a rounded x below 10^(6 - precision), for which g has
\* digits enough and no exponent: the sign, the whole part, and the
\* fraction without the zeros at its end, if any is left
Format(r, precision) ==
    LET Fraction(f) == IF f = << >> THEN << >> ELSE <<".">> \o f
    IN (IF r.neg THEN <<"-">> ELSE << >>)
       \o Digits(r.units \div Pow10(precision))
       \o Fraction(Stripped(Places(r.units % Pow10(precision), precision)))

\* Point.__sub__
Minus(point, other) ==
    Point(Add(point.x, Mul(other.x, Whole(-1))),
          Add(point.y, Mul(other.y, Whole(-1))))

\* SVGOutlineBuilder(relative, precision, tr)
SVGOutlineBuilder(relative, precision, tr) ==
    [file |-> << >>, relative |-> relative, precision |-> precision,
     tr |-> tr, point_prev |-> Point(Whole(0), Whole(0))]

\* self._file.write(text)
Write(builder, text) == [builder EXCEPT !.file = @ \o text]

\* a _write_point that writes the space before every point that follows
\* another
write_point_spaced(builder, p, sep) ==
    LET Text(x, y) ==
            (IF sep THEN <<" ">> ELSE << >>)
            \o Format(x, builder.precision)
            \o (IF NotNegative(y) THEN <<",">> ELSE << >>)
            \o Format(y, builder.precision)
        Rounded(pp) ==
            Text(Round(pp.x, builder.precision),
                 Round(pp.y, builder.precision))
        Moved(q) ==
            [builder |->
               Write(builder,
                     Rounded(IF builder.relative
                             THEN Minus(q, builder.point_prev) ELSE q)),
             p |-> q]
    IN Moved(Apply(builder.tr, p))

\* SVGOutlineBuilder._write_point: [builder, p], p the point it returns
write_point(builder, p, sep) ==
    LET Text(x, y) ==
            (IF sep /\ NotNegative(x) THEN <<" ">> ELSE << >>)
            \o Format(x, builder.precision)
            \o (IF NotNegative(y) THEN <<",">> ELSE << >>)
            \o Format(y, builder.precision)
        Rounded(pp) ==
            Text(Round(pp.x, builder.precision),
                 Round(pp.y, builder.precision))
        Moved(q) ==
            [builder |->
               Write(builder,
                     Rounded(IF builder.relative
                             THEN Minus(q, builder.point_prev) ELSE q)),
             p |-> q]
    IN Moved(Apply(builder.tr, p))

\* the letter of a command: small when the builder is relative
Letter(builder, small, capital) ==
    Write(builder, IF builder.relative THEN <<small>> ELSE <<capital>>)

\* self._point_prev = the point the last _write_point returned
Anchored(w) == [w.builder EXCEPT !.point_prev = w.p]

\* SVGOutlineBuilder.move_to
move_to(builder, p) ==
    Anchored(write_point(Letter(builder, "m", "M"), p, FALSE))

\* SVGOutlineBuilder.line_to
line_to(builder, p) ==
    Anchored(write_point(Letter(builder, "l", "L"), p, FALSE))

\* SVGOutlineBuilder.quad_to
quad_to(builder, p1, p2) ==
    Anchored(write_point(
               write_point(Letter(builder, "q", "Q"), p1, FALSE).builder,
               p2, TRUE))

\* SVGOutlineBuilder.cubic_to
cubic_to(builder, p1, p2, p3) ==
    Anchored(write_point(
               write_point(
                 write_point(Letter(builder, "c", "C"), p1, FALSE).builder,
                 p2, TRUE).builder,
               p3, TRUE))

\* SVGOutlineBuilder.close
close(builder) == Write(builder, <<"Z">>)

\* ------------------------------------------------------ the icon catalog
\* font names of the manifest (descriptions.json), as character sequences
F1 == <<"a">>
F2 == <<"a", "-", "b">>
F3 == <<"d">>
Manifest == <<F1, F2, F3>>
FontNames == {Manifest[i] : i \in 1..Len(Manifest)}

\* metadata["names"].items() of each font: <<icon_name, codepoint>>
MetadataNames(font_name) ==
    IF font_name = F1
    THEN << << <<"b", "-", "c">>, 1 >>, << <<"x">>, 2 >>, << <<"z">>, 7 >> >>
    ELSE IF font_name = F2 THEN << << <<"c">>, 1 >> >>
    ELSE << << <<"e">>, 2 >> >>

\* metadata["family"]
MetadataFamily(font_name) == <<"family">> \o font_name

\* Font(font_path.read_bytes()) of a readable, parsable font file
FontFile(font_name) ==
    [font_type |-> "ttf", glyph_count |-> 2, has_glyf |-> TRUE,
     cmap_ok |-> TRUE, groups |-> << <<1, 2, 0>> >>,
     post_version |-> 3, post_index |-> << >>, post_names |-> << >>]

\* int(modified.timestamp()): ticks to whole seconds, rounded down
FloorSec(ticks) == ticks \div Sub

\* math.ceil(modified.timestamp()): ticks to whole seconds, rounded up
CeilSec(ticks) == (ticks + Sub - 1) \div Sub

\* datetime.fromtimestamp(epoch): whole seconds to ticks
FromTimestamp(epoch) == epoch * Sub

\* f"{font_name}-{icon_name}"
FullName(font_name, icon_name) == font_name \o <<"-">> \o icon_name

\* INTEGER PRIMARY KEY of a new row
NextId(rows) == IF rows = {} THEN 1 ELSE Max({r.id : r \in rows}) + 1

\* INSERT INTO fonts without the ON CONFLICT clause and without the
\* UNIQUE constraint: [rows, id]
InsertFonts(fonts, name, family, file, modified) ==
    [rows |-> fonts \cup
              {[id |-> NextId(fonts), name |-> name, family |-> family,
                file |-> file, modified |-> modified]},
     id |-> NextId(fonts)]

\* UPSERT_FONTS ... RETURNING id: [rows, id]
UpsertFonts(fonts, name, family, file, modified) ==
    IF \E r \in fonts : r.name = name
    THEN LET old == CHOOSE r \in fonts : r.name = name
         IN [rows |-> (fonts \ {old}) \cup
                      {[id |-> old.id, name |-> name, family |-> family,
                        file |-> file, modified |-> modified]},
             id |-> old.id]
    ELSE [rows |-> fonts \cup
                   {[id |-> NextId(fonts), name |-> name, family |-> family,
                     file |-> file, modified |-> modified]},
          id |-> NextId(fonts)]

\* UPSERT_ICONS for one parameter tuple
UpsertIcon(icons, name, codepoint, svg, font_id) ==
    IF \E r \in icons : r.name = name
    THEN LET old == CHOOSE r \in icons : r.name = name
         IN (icons \ {old}) \cup
            {[id |-> old.id, name |-> name, codepoint |-> codepoint,
              svg |-> svg, font_id |-> font_id]}
    ELSE icons \cup
         {[id |-> NextId(icons), name |-> name, codepoint |-> codepoint,
           svg |-> svg, font_id |-> font_id]}

\* executemany(UPSERT_ICONS, icons)
RECURSIVE UpsertIcons(_, _)
UpsertIcons(icons, params) ==
    IF params = << >> THEN icons
    ELSE UpsertIcons(UpsertIcon(icons, Head(params)[1], Head(params)[2],
                                Head(params)[3], Head(params)[4]),
                     Tail(params))

\* the loop over metadata["names"].items() in update(): the parameter
\* tuples of the icons whose glyph is in the font; src names the contents
\* of the source files the svg is computed from
RECURSIVE IconParams(_, _, _, _, _)
IconParams(font, font_name, names, font_id, src) ==
    IF names = << >> THEN << >>
    ELSE LET icon_name == Head(names)[1]
             codepoint == Head(names)[2]
             glyph == glyph_by_codepoint(font, codepoint).glyph
             rest == IconParams(font, font_name, Tail(names), font_id, src)
         IN IF glyph = {} THEN rest
            ELSE << <<FullName(font_name, icon_name), codepoint,
                      [glyph |-> (CHOOSE g \in glyph : TRUE).glyph_id,
                       src |-> src],
                      font_id>> >> \o rest

\* some glyph_by_codepoint call of the loop raises
IconsRaise(font, names) ==
    \E k \in 1..Len(names) : glyph_by_codepoint(font, names[k][2]).raised

\* a row of fonts as get_fonts() returns it
FontDescOf(row) ==
    [font_id |-> row.id, name |-> row.name, family |-> row.family,
     file |-> row.file, modified |-> FromTimestamp(row.modified)]

\* font_descs.get(font_name) in update(): font_descs is keyed by name
FontDescByName(descs, font_name) == {d \in descs : d.name = font_name}

\* the guard of the import: font_desc.font_id < 0 or
\* font_desc.modified < modified
NeedsImport(font_desc, modified) ==
    font_desc.font_id < 0 \/ font_desc.modified < modified

\* what one pass of the loop body of update() does to the connection's view
\* of the tables, up to (not including) the commit, for a font whose files
\* are in state st:
\*   "ok"          readable and well-formed
\*   "unparsable"  the font file cannot be read or Font() raises on it
\*   "badmeta"     the metadata file cannot be read or is malformed
\* [view, raised, wrote (rows written), parsed (Font() returned)]
ImportFont(view, descs, font_name, modified, st) ==
    LET known == FontDescByName(descs, font_name)
        font_desc == IF known = {}
                     THEN [font_id |-> -1, name |-> font_name,
                           family |-> MetadataFamily(font_name),
                           file |-> font_name, modified |-> modified]
                     ELSE CHOOSE d \in known : TRUE
    IN IF known = {} /\ st = "badmeta"
       THEN [view |-> view, raised |-> TRUE, wrote |-> 0, parsed |-> FALSE]
       ELSE IF ~NeedsImport(font_desc, modified)
       THEN [view |-> view, raised |-> FALSE, wrote |-> 0, parsed |-> FALSE]
       ELSE LET up == UpsertFonts(view.fonts, font_desc.name, font_desc.family,
                                  font_desc.file, CeilSec(modified))
                view1 == [fonts |-> up.rows, icons |-> view.icons]
                font == FontFile(font_name)
                names == MetadataNames(font_name)
                params == IconParams(font, font_name, names, up.id, modified)
            IN IF st = "unparsable"
               THEN [view |-> view1, raised |-> TRUE, wrote |-> 1,
                     parsed |-> FALSE]
               ELSE IF st = "badmeta" \/ IconsRaise(font, names)
               THEN [view |-> view1, raised |-> TRUE, wrote |-> 1,
                     parsed |-> TRUE]
               ELSE [view |-> [fonts |-> up.rows,
                               icons |-> UpsertIcons(view.icons, params)],
                     raised |-> FALSE, wrote |-> 1 + Len(params),
                     parsed |-> TRUE]

\* no commit in the loop: the committed tables stay as they are
CommitSkipped(committed, view) == committed

\* self._conn.commit(): the committed tables after it
Commit(committed, view) == view

\* self._font_descs; None is [valid |-> FALSE]
NoMemo == [valid |-> FALSE, descs |-> {}]

\* IconStore.get_fonts: the memo after the call (the call returns its descs)
get_fonts(memo, view) ==
    IF memo.valid THEN memo
    ELSE [valid |-> TRUE, descs |-> {FontDescOf(r) : r \in view.fonts}]

\* the names get_icon is asked for: every name the manifest can produce,
\* and one it cannot
QueryNames ==
    UNION {{FullName(f, MetadataNames(f)[k][1]) :
               k \in 1..Len(MetadataNames(f))} : f \in FontNames}
        \cup {<<"q">>}

NoResult == [kind |-> "none", fonts |-> {}]

\* IconStore.get_icon(name) returns an Icon: the icons table has a row of
\* that name and the memo of get_fonts() has its font_id
Resolves(name, memo, view) ==
    \E r \in view.icons :
       r.name = name /\ \E d \in memo.descs : d.font_id = r.font_id

VARIABLES
    mtime,       \* font name -> max(st_mtime of metadata, of font), in ticks
    fstate,      \* font name -> state of its files
    changes,     \* how many times the source files changed
    db,          \* the committed tables [fonts, icons]
    conn,        \* the tables as self._conn sees them (uncommitted writes too)
    inst,        \* an IconStore instance exists
    font_descs,  \* self._font_descs
    pc,          \* "idle", or "loop" while update() runs
    idx,         \* position of update() in the manifest
    in_ctor,     \* the running update() was called by __init__
    result,      \* what the query that just ended returned or raised
    outcome,     \* how the update() that just ended ended:
                 \* "ok", "error", "interrupt"; "none" otherwise
    writes,      \* rows written by the running or just ended update()
    parsed,      \* fonts parsed by the running or just ended update()
    unchanged,   \* an update() succeeded and no file changed since
    touched,     \* fonts whose mtime advanced since the last update(), if
                 \* that one succeeded
    resolved,    \* the names get_icon returned an Icon for when the running
                 \* or just ended update() was called
    font,        \* a Font whose methods are called
    fres,        \* what the last call of the font module returned or raised
    data,        \* a font file Font() is called on
    reader,      \* a Reader: its view and its cursor
    cmap_table,  \* a cmap table parse_cmap is called on
    glyphs,      \* the glyphs of a glyf table outlines are built from
    cached_tables, \* font.cached_tables of a Font the lazy parsers are called on
    builder      \* an SVGOutlineBuilder the calls of an outline are made of

vars == <<mtime, fstate, changes, db, conn, inst, font_descs, pc, idx, in_ctor,
          result, outcome, writes, parsed, unchanged, touched, resolved, font,
          fres,
          data, reader, cmap_table, glyphs, cached_tables, builder>>

env == <<mtime, fstate, changes>>
call == <<outcome, writes, parsed>>
since == <<unchanged, touched>>
parts == <<data, reader, cmap_table, glyphs, cached_tables, builder>>
facade == <<font, fres, data, reader, cmap_table, glyphs, cached_tables,
            builder>>
store == <<mtime, fstate, changes, db, conn, inst, font_descs, pc, idx,
           in_ctor, result, outcome, writes, parsed, unchanged, touched,
           resolved>>

NoCall == [op |-> "none"]

\* no font file, Reader, cmap table, glyf table or builder is at hand
NoParts ==
    /\ data = << >>
    /\ reader = << >>
    /\ cmap_table = << >>
    /\ glyphs = << >>
    /\ cached_tables = << >>
    /\ builder = << >>

\* a later operation forgets how the last update() went
ForgetCall ==
    /\ outcome' = "none"
    /\ writes' = 0
    /\ parsed' = {}
    /\ resolved' = {}

EmptyTables == [fonts |-> {}, icons |-> {}]

\* a new database, no IconStore yet
InitStore ==
    /\ mtime = [f \in FontNames |-> 1]
    /\ changes = 0
    /\ db = EmptyTables
    /\ conn = EmptyTables
    /\ inst = FALSE
    /\ font_descs = NoMemo
    /\ pc = "idle"
    /\ idx = 1
    /\ in_ctor = FALSE
    /\ result = NoResult
    /\ outcome = "none"
    /\ writes = 0
    /\ parsed = {}
    /\ unchanged = FALSE
    /\ touched = {}
    /\ resolved = {}

Init ==
    /\ InitStore
    /\ fstate \in [FontNames -> {"ok", "unparsable", "badmeta"}]
    /\ font = FontFile(F1)
    /\ fres = NoCall
    /\ NoParts

\* a source file is rewritten or touched
Touch(f) ==
    /\ pc = "idle"
    /\ mtime[f] < MaxTime
    /\ changes < MaxChanges
    /\ mtime' = [mtime EXCEPT ![f] = @ + 1]
    /\ changes' = changes + 1
    /\ touched' = IF (unchanged /\ outcome # "interrupt") \/ touched # {}
                  THEN touched \cup {f} ELSE {}
    /\ unchanged' = FALSE
    /\ result' = NoResult
    /\ ForgetCall
    /\ UNCHANGED facade
    /\ UNCHANGED <<fstate, db, conn, inst, font_descs, pc, idx, in_ctor>>

\* a source file becomes unreadable, malformed, or good again
SetFileState(f, st) ==
    /\ pc = "idle"
    /\ fstate[f] # st
    /\ changes < MaxChanges
    /\ fstate' = [fstate EXCEPT ![f] = st]
    /\ changes' = changes + 1
    /\ unchanged' = FALSE
    /\ result' = NoResult
    /\ ForgetCall
    /\ UNCHANGED facade
    /\ UNCHANGED <<mtime, touched, db, conn, inst, font_descs, pc, idx,
                   in_ctor>>

\* the first lines of update(): the manifest is read, get_fonts() is called
BeginUpdate(memo, view) ==
    /\ font_descs' = get_fonts(memo, view)
    /\ pc' = "loop"
    /\ idx' = 1
    /\ outcome' = "none"
    /\ writes' = 0
    /\ parsed' = {}
    /\ resolved' = {name \in QueryNames :
                       Resolves(name, get_fonts(memo, view), view)}
    /\ result' = NoResult

\* IconStore.__init__ on a database that holds icons
Construct ==
    /\ pc = "idle"
    /\ db.icons # {}
    /\ conn' = db
    /\ font_descs' = NoMemo
    /\ inst' = TRUE
    /\ in_ctor' = FALSE
    /\ result' = NoResult
    /\ ForgetCall
    /\ UNCHANGED facade
    /\ UNCHANGED <<env, db, pc, idx, since>>

\* IconStore.__init__ on a database without icons: it calls update()
ConstructUpdate ==
    /\ pc = "idle"
    /\ db.icons = {}
    /\ conn' = db
    /\ inst' = FALSE
    /\ in_ctor' = TRUE
    /\ BeginUpdate(NoMemo, db)
    /\ UNCHANGED facade
    /\ UNCHANGED <<env, db, since>>

\* IconStore.update is called
UpdateStart ==
    /\ pc = "idle"
    /\ inst
    /\ in_ctor' = FALSE
    /\ BeginUpdate(font_descs, conn)
    /\ UNCHANGED facade
    /\ UNCHANGED <<env, db, conn, inst, since>>

Step == ImportFont(conn, font_descs.descs, Manifest[idx],
                   mtime[Manifest[idx]], fstate[Manifest[idx]])

\* one pass of the loop of update(), ended by its commit
UpdateFont ==
    /\ pc = "loop"
    /\ idx <= Len(Manifest)
    /\ ~Step.raised
    /\ conn' = Step.view
    /\ db' = Commit(db, Step.view)
    /\ idx' = idx + 1
    /\ writes' = writes + Step.wrote
    /\ parsed' = IF Step.parsed THEN parsed \cup {Manifest[idx]} ELSE parsed
    /\ UNCHANGED facade
    /\ UNCHANGED <<env, inst, font_descs, pc, in_ctor, result, outcome,
                   since, resolved>>

\* one pass of the loop of update() that raises: update() ends there
UpdateFontRaise ==
    /\ pc = "loop"
    /\ idx <= Len(Manifest)
    /\ Step.raised
    /\ conn' = Step.view
    /\ pc' = "idle"
    /\ outcome' = "error"
    /\ writes' = writes + Step.wrote
    /\ parsed' = IF Step.parsed THEN parsed \cup {Manifest[idx]} ELSE parsed
    /\ touched' = {}
    /\ UNCHANGED facade
    /\ UNCHANGED <<env, db, inst, font_descs, idx, in_ctor, result, unchanged,
                   resolved>>

\* update() is interrupted (KeyboardInterrupt) inside a pass of the loop:
\* before the font row is written, between the font row and the icon rows,
\* or between the icon rows and the commit
UpdateInterrupt(point) ==
    /\ pc = "loop"
    /\ idx <= Len(Manifest)
    /\ ~Step.raised
    /\ conn' = IF point = "before" THEN conn
              ELSE IF point = "after_upsert"
              THEN ImportFont(conn, font_descs.descs, Manifest[idx],
                              mtime[Manifest[idx]], "unparsable").view
              ELSE Step.view
    /\ pc' = "idle"
    /\ outcome' = "interrupt"
    /\ touched' = {}
    /\ UNCHANGED facade
    /\ UNCHANGED <<env, db, inst, font_descs, idx, in_ctor, result, writes,
                   parsed, unchanged, resolved>>

\* the end of update(): the memo of get_fonts() is pruned
UpdateEnd ==
    /\ pc = "loop"
    /\ idx > Len(Manifest)
    /\ font_descs' = NoMemo
    /\ pc' = "idle"
    /\ inst' = TRUE
    /\ in_ctor' = FALSE
    /\ outcome' = "ok"
    /\ unchanged' = TRUE
    /\ touched' = {}
    /\ UNCHANGED facade
    /\ UNCHANGED <<env, db, conn, idx, result, writes, parsed, resolved>>

\* IconStore.get_fonts is called
GetFonts ==
    /\ pc = "idle"
    /\ inst
    /\ font_descs' = get_fonts(font_descs, conn)
    /\ result' = [kind |-> "fonts", fonts |-> get_fonts(font_descs, conn).descs]
    /\ ForgetCall
    /\ UNCHANGED facade
    /\ UNCHANGED <<env, db, conn, inst, pc, idx, in_ctor, since>>

\* IconStore.get_icon(name) is called
GetIcon(name) ==
    /\ pc = "idle"
    /\ inst
    /\ LET rows == {r \in conn.icons : r.name = name}
           memo == get_fonts(font_descs, conn)
       IN IF rows = {}
          THEN /\ result' = [kind |-> "None", fonts |-> {}]
               /\ font_descs' = font_descs
          ELSE LET font_id == (CHOOSE r \in rows : TRUE).font_id
                   font_desc == {d \in memo.descs : d.font_id = font_id}
               IN /\ font_descs' = memo
                  /\ result' = IF font_desc = {}
                               THEN [kind |-> "ValueError", fonts |-> {}]
                               ELSE [kind |-> "Icon", fonts |-> font_desc]
    /\ ForgetCall
    /\ UNCHANGED facade
    /\ UNCHANGED <<env, db, conn, inst, pc, idx, in_ctor, since>>

\* IconStore.get_icons is called
GetIcons ==
    /\ pc = "idle"
    /\ inst
    /\ LET memo == get_fonts(font_descs, conn)
       IN /\ font_descs' = memo
          /\ result' =
                IF \E r \in conn.icons :
                       \A d \in memo.descs : d.font_id # r.font_id
                THEN [kind |-> "KeyError", fonts |-> {}]
                ELSE [kind |-> "Icons",
                      fonts |-> {d \in memo.descs :
                                   \E r \in conn.icons : r.font_id = d.font_id}]
    /\ ForgetCall
    /\ UNCHANGED facade
    /\ UNCHANGED <<env, db, conn, inst, pc, idx, in_ctor, since>>

Next ==
    \/ \E f \in FontNames : Touch(f)
    \/ \E f \in FontNames, st \in {"ok", "unparsable", "badmeta"} :
          SetFileState(f, st)
    \/ Construct
    \/ ConstructUpdate
    \/ UpdateStart
    \/ UpdateFont
    \/ UpdateFontRaise
    \/ \E point \in {"before", "after_upsert", "after_icons"} :
          UpdateInterrupt(point)
    \/ UpdateEnd
    \/ GetFonts
    \/ \E name \in QueryNames : GetIcon(name)
    \/ GetIcons

Spec == Init /\ [][Next]_vars

\* ------------------------------------------ calls of the font facade
\* sequences over S of length at most n
SeqsUpTo(S, n) == UNION {[1..k -> S] : k \in 0..n}

\* the groups of a cmap subtable: <<start, end, glyph_id>>
Groups ==
    {<<a, b, g>> : a \in 0..MaxCp, b \in 0..MaxCp, g \in 0..MaxGlyphs}

\* the fonts glyph_by_codepoint is called on
GlyphFonts ==
    [font_type : {"ttf", "otf"}, glyph_count : 0..MaxGlyphs,
     has_glyf : BOOLEAN, cmap_ok : BOOLEAN,
     groups : SeqsUpTo({g \in Groups : g[1] <= g[2]}, MaxGroups),
     post_version : {3}, post_index : {<< >>}, post_names : {<< >>}]

\* the fonts codepoint_by_name is called on: a version-2 post table, and a
\* cmap of at most one group, which starts at glyph 0
NameFonts ==
    [font_type : {"ttf"}, glyph_count : 0..MaxGlyphs,
     has_glyf : {TRUE}, cmap_ok : {TRUE},
     groups : SeqsUpTo({g \in Groups : g[1] <= g[2] /\ g[3] = 0}, 1),
     post_version : {2},
     post_index : SeqsUpTo({FirstCustomName - 1, FirstCustomName,
                            FirstCustomName + 1}, MaxPost),
     post_names : SeqsUpTo({"p", "q"}, MaxPost)]

FontInit ==
    /\ InitStore
    /\ fstate = [f \in FontNames |-> "ok"]
    /\ font \in GlyphFonts \cup NameFonts
    /\ fres = NoCall
    /\ NoParts

\* font.glyph_by_codepoint(codepoint) is called
CallGlyphByCodepoint(codepoint) ==
    /\ fres' = [op |-> "glyph_by_codepoint", codepoint |-> codepoint,
                raised |-> glyph_by_codepoint(font, codepoint).raised,
                glyph |-> glyph_by_codepoint(font, codepoint).glyph]
    /\ UNCHANGED <<font, parts>>
    /\ UNCHANGED store

\* font.codepoint_by_name() is called
CallCodepointByName ==
    /\ fres' = [op |-> "codepoint_by_name",
                raised |-> codepoint_by_name(font).raised,
                name_to_codepoint |-> codepoint_by_name(font).name_to_codepoint]
    /\ UNCHANGED <<font, parts>>
    /\ UNCHANGED store

\* font.parse_post() is called
CallParsePost ==
    /\ fres' = [op |-> "parse_post",
                raised |-> parse_post(font).raised,
                glyph_id_to_name |-> parse_post(font).glyph_id_to_name]
    /\ UNCHANGED <<font, parts>>
    /\ UNCHANGED store

FontNext ==
    \/ \E codepoint \in 0..(MaxCp + 1) : CallGlyphByCodepoint(codepoint)
    \/ CallCodepointByName
    \/ CallParsePost

FontSpec == FontInit /\ [][FontNext]_vars

\* ------------------------------------------------- calls of Font()
\* the font files Font() is called on
FontData ==
    [sfnt_version : {SfntTtf, SfntOtf, 0},
     directory : SeqsUpTo({"maxp", "name", "head"}, MaxTables),
     maxp_len : {4, 6}, glyph_count : {1}, magic : {HeadMagic, 0}]

\* no Font: the name a failed Font(data) would have been bound to
NoFont == [font_type |-> "none"]

CtorInit ==
    /\ InitStore
    /\ fstate = [f \in FontNames |-> "ok"]
    /\ font = NoFont
    /\ fres = NoCall
    /\ data \in FontData
    /\ reader = << >>
    /\ cmap_table = << >>
    /\ glyphs = << >>
    /\ cached_tables = << >>
    /\ builder = << >>

\* font = Font(data)
CallFont ==
    /\ fres' = [op |-> "Font", raised |-> FontNew(data).raised]
    /\ font' = IF FontNew(data).font = {} THEN font
               ELSE CHOOSE f \in FontNew(data).font : TRUE
    /\ UNCHANGED parts
    /\ UNCHANGED store

CtorNext == CallFont

CtorSpec == CtorInit /\ [][CtorNext]_vars

\* ------------------------------------------------ calls of a Reader
\* the bytes a Reader is made over
Bytes == {1, 255}

ReaderInit ==
    /\ InitStore
    /\ fstate = [f \in FontNames |-> "ok"]
    /\ font = NoFont
    /\ fres = NoCall
    /\ data = << >>
    /\ reader \in [data : SeqsUpTo(Bytes, MaxLen), pos : {0}]
    /\ cmap_table = << >>
    /\ glyphs = << >>
    /\ cached_tables = << >>
    /\ builder = << >>

\* what a call on the Reader leaves: the reader, and in fres the call, the
\* cursor it started from, the bytes it asked for, and what it returned
Called(op, from, asked, r) ==
    /\ reader' = r.reader
    /\ fres' = [op |-> op, from |-> from, asked |-> asked,
                raised |-> r.raised, value |-> r.value]
    /\ UNCHANGED <<font, data, cmap_table, glyphs, cached_tables, builder>>
    /\ UNCHANGED store

Offsets == {{}} \cup {{a} : a \in 0..(MaxLen + 1)}

StartOf(at) == IF at = {} THEN reader.pos ELSE CHOOSE a \in at : TRUE

\* reader.read(size, at)
CallRead(size, at) ==
    Called("read", StartOf(at), size, read(reader, size, at))

\* reader.read_string(size, at)
CallReadString(size, at) ==
    Called("read_string", StartOf(at), size, read_string(reader, size, at))

\* reader.read_u8()
CallReadU8 == Called("read_u8", reader.pos, 1, read_u8(reader))

\* reader.read_i8() ... reader.read_longdatetime()
CallTypedRead(name) ==
    Called(name, reader.pos, StructSize(FormatOf(name)),
           read_struct(reader, FormatOf(name), {}))

\* reader.seek(target)
CallSeek(target) ==
    Called("seek", reader.pos, 0,
           [reader |-> seek(reader, target), raised |-> "none",
            value |-> << >>])

\* reader.advance(size)
CallAdvance(size) ==
    /\ reader.pos + size <= MaxLen + 1
    /\ Called("advance", reader.pos, 0,
              [reader |-> advance(reader, size), raised |-> "none",
               value |-> << >>])

\* reader = reader.view(start, end)
CallView(start, end) ==
    Called("view", reader.pos, 0,
           [reader |-> reader_view(reader, start, end), raised |-> "none",
            value |-> << >>])

ReaderNext ==
    \/ \E size \in 0..(MaxLen + 1), at \in Offsets : CallRead(size, at)
    \/ \E size \in 0..(MaxLen + 1), at \in Offsets : CallReadString(size, at)
    \/ CallReadU8
    \/ \E name \in TypedReads : CallTypedRead(name)
    \/ \E target \in 0..(MaxLen + 1) : CallSeek(target)
    \/ \E size \in 0..(MaxLen + 1) : CallAdvance(size)
    \/ \E start \in 0..(MaxLen + 1), end \in 0..(MaxLen + 1) :
          CallView(start, end)

ReaderSpec == ReaderInit /\ [][ReaderNext]_vars

\* ---------------------------------------------- calls of parse_cmap
\* the encoding records of a cmap table: platform 0 or 3, encoding 3 or 4,
\* at one of two offsets. A subtable lies behind the header of the table,
\* so its offset is not 0.
EncodingRecords == {<<p, e, o>> : p \in {0, 3}, e \in {3, 4}, o \in {1, 2}}

\* the segments of a format-4 subtable: a range of codepoints or the last
\* segment, an id_delta, an id_range_offset
Segments ==
    {<<r[2], r[1], d, o>> :
        r \in {<<a, b>> : a \in 0..MaxCp, b \in 0..MaxCp}
                  \cup {<<LastCode, LastCode>>},
        d \in {-1, 0, 1}, o \in {0, 1}}

\* the subtables parse_cmap is called on: format 12, format 4, and a format
\* it does not support
Subtables ==
    [format : {12}, segments : {<< >>},
     groups : SeqsUpTo({g \in Groups : g[1] <= g[2]}, MaxSegs)]
    \cup [format : {4}, groups : {<< >>},
          segments : SeqsUpTo({g \in Segments : g[2] <= g[1]}, MaxSegs)]
    \cup [format : {0}, groups : {<< >>}, segments : {<< >>}]

\* the cmap tables parse_cmap is called on: any encoding records over two
\* given subtables, and one record of platform 0, encoding 4 over any
\* subtable
CmapTables ==
    [records : SeqsUpTo(EncodingRecords, MaxRecords),
     subtables : {<<[format |-> 12, groups |-> << <<1, 1, 0>> >>,
                     segments |-> << >>],
                    [format |-> 4, groups |-> << >>,
                     segments |-> << <<1, 1, 1, 0>> >>]>>}]
    \cup [records : {<< <<0, 4, 1>> >>},
          subtables : {<<t>> : t \in Subtables}]

CmapInit ==
    /\ InitStore
    /\ fstate = [f \in FontNames |-> "ok"]
    /\ font = NoFont
    /\ fres = NoCall
    /\ data = << >>
    /\ reader = << >>
    /\ cmap_table \in CmapTables
    /\ glyphs = << >>
    /\ cached_tables = << >>
    /\ builder = << >>

\* parse_cmap() of a font whose cmap table is cmap_table
CallParseCmap ==
    /\ fres' = [op |-> "parse_cmap",
                raised |-> ParseCmap(cmap_table).raised,
                offset |-> ParseCmap(cmap_table).offset,
                cmap |-> ParseCmap(cmap_table).cmap]
    /\ UNCHANGED <<font, parts>>
    /\ UNCHANGED store

CmapNext == CallParseCmap

CmapSpec == CmapInit /\ [][CmapNext]_vars

\* ------------------------------------------ calls of the lazy parsers
\* the fonts the lazy parsers are called on: maxp, name and head are in the
\* table directory, any of the other tables may be missing
CacheFonts ==
    [font_type : {"ttf"}, glyph_count : {1},
     tables : {{"maxp", "name", "head"} \cup t :
                  t \in SUBSET {"loca", "glyf", "hhea", "hmtx", "cmap",
                                "post"}}]

\* Font.__init__ has called parse_name, cached as "parse", and parse_head
CacheInit ==
    /\ InitStore
    /\ fstate = [f \in FontNames |-> "ok"]
    /\ font \in CacheFonts
    /\ fres = NoCall
    /\ data = << >>
    /\ reader = << >>
    /\ cmap_table = << >>
    /\ glyphs = << >>
    /\ cached_tables = ("parse" :> Table("name") @@ "head" :> Table("head"))
    /\ builder = << >>

\* the lazy parser cached under name is called on font
CallLazy(name) ==
    /\ cached_tables' = Lazy(name, font, cached_tables).cache
    /\ fres' = [op |-> name,
                ran |-> Lazy(name, font, cached_tables).ran,
                raised |-> Lazy(name, font, cached_tables).raised,
                table |-> Lazy(name, font, cached_tables).table]
    /\ UNCHANGED <<font, data, reader, cmap_table, glyphs, builder>>
    /\ UNCHANGED store

CacheNext == \E name \in LazyNames : CallLazy(name)

CacheSpec == CacheInit /\ [][CacheNext]_vars

\* -------------------------------------------- calls of Glyph.build_outline
\* the two bytes struct packs a u16 into
Be16(n) == <<n \div 256, n % 256>>

\* the elements of a set of numbers in rising order
RECURSIVE Rising(_)
Rising(S) ==
    IF S = {} THEN << >>
    ELSE LET least == CHOOSE a \in S : \A b \in S : a <= b
         IN <<least>> \o Rising(S \ {least})

\* the sequences of seqs joined
RECURSIVE Join(_)
Join(seqs) == IF seqs = << >> THEN << >> ELSE Head(seqs) \o Join(Tail(seqs))

\* Glyph.__init__ on the bytes parse_glyf cuts out of the glyf table for
\* glyph_id: bytes that are empty or hold the ten bytes of contours_count
\* and the box
GlyphNew(glyph_id, bytes) ==
    IF bytes = << >>
    THEN [glyph_id |-> glyph_id, contours_count |-> 0, data |-> << >>]
    ELSE [glyph_id |-> glyph_id,
          contours_count |-> Unpack(">h", SubSeq(bytes, 1, 2)),
          data |-> Slice(bytes, 10, Len(bytes))]

\* GlyfTable(glyphs) of parse_glyf for the bytes of each glyph
GlyfTable(glyph_bytes) ==
    [i \in 1..Len(glyph_bytes) |-> GlyphNew(i - 1, glyph_bytes[i])]

\* the bytes of a simple glyph: contours_count, a box of zeros, the
\* endpoints, no instructions, the flags and two bytes of 1 for each of
\* count points
SimpleBytes(endpoints, flags, count) ==
    Be16(Len(endpoints)) \o <<0, 0, 0, 0, 0, 0, 0, 0>>
    \o Join([i \in 1..Len(endpoints) |-> Be16(endpoints[i])])
    \o <<0, 0>> \o flags \o [i \in 1..2 * count |-> 1]

\* the endpoints of the contours of a glyph of at most MaxPoint points
Endpoints == {Rising(S) : S \in SUBSET (0..MaxPoint - 1) \ {{}}}

\* flags of one point each: off curve and on curve moved by (+1, +1), on
\* curve moved by (-1, 0)
PointFlags == {54, 55, 35}

\* glyphs whose flags are one byte for each point
PlainGlyphs ==
    {SimpleBytes(e, f, Len(f)) :
        e \in Endpoints, f \in SeqsUpTo(PointFlags, MaxPoint) \ {<< >>}}

\* runs of a flag with REPEAT_FLAG and its count: off curve and not moved,
\* on curve and moved by (+1, +1)
Runs == {56, 63} \X (0..MaxRepeat)

\* glyphs whose flags are runs
RunGlyphs ==
    {SimpleBytes(e, Join([i \in 1..Len(r) |-> <<r[i][1], r[i][2]>>]),
                 Len(r) * (MaxRepeat + 1)) :
        e \in {c \in Endpoints : Len(c) <= 2},
        r \in SeqsUpTo(Runs, MaxRuns) \ {<< >>}}

\* a component of a composite glyph: the glyph it names, whether its two
\* arguments are an offset (1, 0) or the numbers of two points, and
\* whether it has a scale of -1.0, which those of glyph 0 may have
Components ==
    {c \in [glyph_id : 0..4, xy : BOOLEAN, scaled : BOOLEAN] :
        c.scaled => c.glyph_id = 0}

\* the bytes of a component: flags, glyph index, two arguments of a byte
\* each and the scale
ComponentBytes(c, more) ==
    Be16((IF c.xy THEN ARGS_ARE_XY_VALUES ELSE 0)
         + (IF c.scaled THEN WE_HAVE_A_SCALE ELSE 0)
         + (IF more THEN MORE_COMPONENTS ELSE 0))
    \o Be16(c.glyph_id) \o <<1, 0>>
    \o (IF c.scaled THEN <<192, 0>> ELSE << >>)

\* the bytes of a composite glyph: contours_count -1, a box of zeros and
\* the components, each but the last with MORE_COMPONENTS
CompositeBytes(components) ==
    <<255, 255, 0, 0, 0, 0, 0, 0, 0, 0>>
    \o Join([i \in 1..Len(components) |->
               ComponentBytes(components[i], i < Len(components))])

\* the simple glyphs the second glyph of a table with composites is taken
\* from: a curve, a glyph of no bytes, and two contours of one point each
\* followed by one run
ChildGlyphs ==
    {SimpleBytes(<<2>>, <<55, 54, 55>>, 3), << >>}
    \cup {SimpleBytes(<<0, 1>>, <<f, MaxRepeat>>, MaxRepeat + 1) :
             f \in {56, 63}}

\* glyf tables with composites: glyph 0 a line, glyph 1 a simple glyph,
\* glyph 2 a composite of components, glyph 3 a composite of glyph 2
\* turned and moved; no glyph 4
CompositeTables ==
    {<<SimpleBytes(<<1>>, <<55, 55>>, 2), child, CompositeBytes(components),
       CompositeBytes(<<[glyph_id |-> 2, xy |-> TRUE, scaled |-> TRUE]>>)>> :
        child \in ChildGlyphs,
        components \in SeqsUpTo(Components, MaxComponents) \ {<< >>}}

\* the glyf tables glyphs are drawn from
GlyfTables ==
    {GlyfTable(t) : t \in {<<g>> : g \in PlainGlyphs \cup RunGlyphs}
                          \cup CompositeTables}

\* the transforms build_outline is called with: None, for which the
\* outline takes the identity, and a quarter turn moved by (1, 0)
Transforms ==
    {identity,
     Transform(Whole(0), Whole(-1), Whole(1), Whole(1), Whole(0), Whole(0))}

OutlineInit ==
    /\ InitStore
    /\ fstate = [f \in FontNames |-> "ok"]
    /\ font = NoFont
    /\ fres = NoCall
    /\ data = << >>
    /\ reader = << >>
    /\ cmap_table = << >>
    /\ glyphs \in GlyfTables
    /\ cached_tables = << >>
    /\ builder = << >>

\* One call is made of a table: every outline starts with seek(0) and
\* leaves the table as it was, so a later call would find what this one
\* finds.
\* build_outline(builder, tr) is called on the glyph of glyph_id for a
\* builder that keeps the calls made of it
CallBuildOutline(glyph_id, tr) ==
    /\ fres = NoCall
    /\ LET r == build_outline(glyphs, glyphs[glyph_id + 1], tr, 0)
       IN fres' = [op |-> "build_outline", glyph_id |-> glyph_id,
                   tr |-> tr, raised |-> r.raised, cmds |-> r.cmds]
    /\ UNCHANGED <<font, parts>>
    /\ UNCHANGED store

\* bbox() is called on the glyph of glyph_id
CallBbox(glyph_id) ==
    /\ fres = NoCall
    /\ LET r == bbox(glyphs, glyphs[glyph_id + 1])
       IN fres' = [op |-> "bbox", glyph_id |-> glyph_id,
                   raised |-> r.raised, box |-> r.box]
    /\ UNCHANGED <<font, parts>>
    /\ UNCHANGED store

\* the GlyphPoints of _simple_outline_points() are taken one after the
\* other from the glyph of glyph_id, a glyph that is not a composite, as
\* bbox() and _simple_outline() take them
CallSimpleOutlinePoints(glyph_id) ==
    /\ fres = NoCall
    /\ glyphs[glyph_id + 1].contours_count >= 0
    /\ LET r == simple_outline_points(glyphs[glyph_id + 1])
       IN fres' = [op |-> "simple_outline_points", glyph_id |-> glyph_id,
                   raised |-> r.raised, points |-> r.points]
    /\ UNCHANGED <<font, parts>>
    /\ UNCHANGED store

OutlineNext ==
    \/ \E glyph_id \in 0..Len(glyphs) - 1, tr \in Transforms :
          CallBuildOutline(glyph_id, tr)
    \/ \E glyph_id \in 0..Len(glyphs) - 1 : CallBbox(glyph_id)
    \/ \E glyph_id \in 0..Len(glyphs) - 1 : CallSimpleOutlinePoints(glyph_id)

OutlineSpec == OutlineInit /\ [][OutlineNext]_vars

\* ------------------------------------------- calls of an SVGOutlineBuilder
\* how many calls are made of a builder
MaxCalls == 2

\* the points the calls are made with: x and y of either sign, a negative
\* x that rounds to -0.0, numbers that need two decimals or lie between
\* two
SvgPoints ==
    {Point(Whole(2), Num(-3, 1)), Point(Num(-3, 1), Num(1, 3)),
     Point(Num(-1, 8), Whole(2))}

SvgInit ==
    /\ InitStore
    /\ fstate = [f \in FontNames |-> "ok"]
    /\ font = NoFont
    /\ fres = [op |-> "new", pts |-> << >>, calls |-> 0]
    /\ data = << >>
    /\ reader = << >>
    /\ cmap_table = << >>
    /\ glyphs = << >>
    /\ cached_tables = << >>
    /\ builder \in {SVGOutlineBuilder(relative, Precision, tr) :
                       relative \in BOOLEAN, tr \in Transforms}

\* what a call of the builder leaves: the builder, and in fres the call
\* and how many calls were made
CalledBuilder(op, pts, after) ==
    /\ fres.calls < MaxCalls
    /\ builder' = after
    /\ fres' = [op |-> op, pts |-> pts, calls |-> fres.calls + 1]
    /\ UNCHANGED <<font, data, reader, cmap_table, glyphs, cached_tables>>
    /\ UNCHANGED store

CallMoveTo(p) == CalledBuilder("move_to", <<p>>, move_to(builder, p))

CallLineTo(p) == CalledBuilder("line_to", <<p>>, line_to(builder, p))

CallQuadTo(p1, p2) ==
    CalledBuilder("quad_to", <<p1, p2>>, quad_to(builder, p1, p2))

CallCubicTo(p1, p2, p3) ==
    CalledBuilder("cubic_to", <<p1, p2, p3>>, cubic_to(builder, p1, p2, p3))

CallClose == CalledBuilder("close", << >>, close(builder))

SvgNext ==
    \/ \E p \in SvgPoints : CallMoveTo(p)
    \/ \E p \in SvgPoints : CallLineTo(p)
    \/ \E p1 \in SvgPoints, p2 \in SvgPoints : CallQuadTo(p1, p2)
    \/ \E p1 \in SvgPoints, p2 \in SvgPoints, p3 \in SvgPoints :
          CallCubicTo(p1, p2, p3)
    \/ CallClose

SvgSpec == SvgInit /\ [][SvgNext]_vars

\* ------------------------------------------------------------ properties

\* the icon names of a font that update() stores: those with a glyph
StoredNames(f) ==
    {FullName(f, MetadataNames(f)[k][1]) : k \in
        {k \in 1..Len(MetadataNames(f)) :
            glyph_by_codepoint(FontFile(f), MetadataNames(f)[k][2]).glyph # {}}}

\* C1: an update() called when nothing changed since the previous successful
\* update() writes no row and parses no font, up to its last pass.
C1_Idempotent ==
    (pc = "loop" /\ unchanged) => (writes = 0 /\ parsed = {} /\ conn = db)

\* an update() called when nothing changed has made all its passes
C1_Witness ==
    pc = "loop" /\ unchanged /\ idx > Len(Manifest) /\ db.icons # {}

\* C2: an update() that returns has parsed every font whose mtime advanced
\* since the previous update(), which succeeded.
C2_AdvanceReimports ==
    (pc = "loop" /\ idx > Len(Manifest)) => touched \subseteq parsed

\* C3: in the committed tables, every icon of every font row is there, and
\* if it is attributed to that font it was computed from the source files
\* whose timestamp the font row carries.
C3_WholeOrUntouched ==
    \A r \in db.fonts : \A n \in StoredNames(r.name) :
        \E i \in db.icons :
            /\ i.name = n
            /\ i.font_id = r.id => CeilSec(i.svg.src) = r.modified

\* the rows an update() gave the fonts it imported before position k
PriorCommitted(tables, k, done) ==
    \A j \in 1..(k - 1) :
        Manifest[j] \in done =>
            /\ \E r \in tables.fonts :
                  /\ r.name = Manifest[j]
                  /\ r.modified = CeilSec(mtime[Manifest[j]])
            /\ \A n \in StoredNames(Manifest[j]) :
                  LET w == Max({m \in j..(k - 1) :
                                  /\ Manifest[m] \in done
                                  /\ n \in StoredNames(Manifest[m])})
                  IN \E i \in tables.icons : \E r \in tables.fonts :
                        /\ i.name = n
                        /\ r.name = Manifest[w]
                        /\ i.font_id = r.id
                        /\ i.svg.src = mtime[Manifest[w]]

\* C4: when a pass of update() raises, no icon row is written by it and the
\* rows of the fonts imported earlier in the call are committed.
C4_FailureKeepsPrefix ==
    [][(pc = "loop" /\ outcome' = "error") =>
          /\ pc' = "idle"
          /\ conn'.icons = conn.icons
          /\ PriorCommitted(db', idx, parsed)]_vars

\* an update() raised after it imported the first font of the manifest
C4_Witness ==
    pc = "idle" /\ outcome = "error" /\ idx > 1 /\ Manifest[1] \in parsed

\* C5: every icon row names an existing font row, and get_icon does not
\* raise 'Missing font_id'.
C5_FontIdResolves ==
    /\ \A i \in conn.icons : \E r \in conn.fonts : r.id = i.font_id
    /\ result.kind # "ValueError"

\* C6: no step changes the font an icon row is attributed to.
C6_NoReattribution ==
    [][\A i \in conn.icons : \A j \in conn'.icons :
          j.name = i.name => j.font_id = i.font_id]_vars

\* C7 as stated: at most one font row per name; a pass of update() over a
\* font whose row is older than its source keeps the row's id, creates no
\* row, and leaves the source's timestamp in the modified column.
C7_UpsertExact ==
    [][(pc = "loop" /\ idx' = idx + 1) =>
          /\ \A a, b \in conn'.fonts : a.name = b.name => a = b
          /\ \A r \in conn.fonts :
                (r.name = Manifest[idx]
                    /\ FromTimestamp(r.modified) < mtime[Manifest[idx]]) =>
                /\ Cardinality(conn'.fonts) = Cardinality(conn.fonts)
                /\ \E q \in conn'.fonts :
                      /\ q.name = r.name
                      /\ q.id = r.id
                      /\ FromTimestamp(q.modified) = mtime[Manifest[idx]]]_vars

\* C7 amended: at most one font row per name; a pass of update() over a
\* font whose row is older than its source keeps the row's id, creates no
\* row, and leaves the source's timestamp, rounded up to the whole second,
\* in the modified column.
C7_UpsertCeil ==
    [][(pc = "loop" /\ idx' = idx + 1) =>
          /\ \A a, b \in conn'.fonts : a.name = b.name => a = b
          /\ \A r \in conn.fonts :
                (r.name = Manifest[idx]
                    /\ FromTimestamp(r.modified) < mtime[Manifest[idx]]) =>
                /\ Cardinality(conn'.fonts) = Cardinality(conn.fonts)
                /\ \E q \in conn'.fonts :
                      /\ q.name = r.name
                      /\ q.id = r.id
                      /\ q.modified = CeilSec(mtime[Manifest[idx]])]_vars

\* an update() has re-imported a font whose row it found older than its
\* source: the row has the id the memo knows it by, and the new timestamp
C7_Witness ==
    /\ pc = "loop"
    /\ \E f \in parsed : \E d \in font_descs.descs : \E r \in conn.fonts :
          /\ d.name = f /\ r.name = f
          /\ d.modified < mtime[f]
          /\ r.id = d.font_id
          /\ r.modified = CeilSec(mtime[f])

\* C8: between update() calls the memo of get_fonts(), when set, is the
\* fonts table.
C8_MemoIsTable ==
    (pc = "idle" /\ inst /\ font_descs.valid) =>
        font_descs.descs = {FontDescOf(r) : r \in conn.fonts}

\* C9: glyph_by_codepoint raises on an OTF font; on a TTF font whose cmap
\* parses it returns None exactly when the codepoint is not in the cmap or
\* its glyph id is not below the number of glyphs of glyf (none without a
\* glyf table), and the glyph with the mapped id otherwise.
C9_GlyphByCodepoint ==
    fres.op = "glyph_by_codepoint" =>
        LET ids == parse_cmap(font).codepoint_to_glyph_id
            count == IF font.has_glyf THEN font.glyph_count ELSE 0
            absent == \/ fres.codepoint \notin DOMAIN ids
                      \/ ids[fres.codepoint] < 0
                      \/ ids[fres.codepoint] >= count
        IN /\ font.font_type = "otf" => fres.raised
           /\ (font.font_type = "ttf" /\ font.cmap_ok) =>
                 /\ ~fres.raised
                 /\ fres.glyph = {} <=> absent
                 /\ ~absent =>
                       fres.glyph = {[glyph_id |-> ids[fres.codepoint]]}

\* glyph_by_codepoint returned a glyph of a TTF font
C9_Witness ==
    /\ fres.op = "glyph_by_codepoint"
    /\ font.font_type = "ttf"
    /\ fres.glyph # {}

\* the glyphs of a font with a post name and a cmap codepoint other than 0
Named(f) ==
    {g \in 0..(f.glyph_count - 1) :
        /\ g \in DOMAIN parse_post(f).glyph_id_to_name
        /\ g \in DOMAIN parse_cmap(f).glyph_id_to_codepoint
        /\ parse_cmap(f).glyph_id_to_codepoint[g] # 0}

\* C10 as stated: codepoint_by_name() maps the post name of every glyph
\* that has one and has a cmap codepoint other than 0 to that codepoint,
\* and has no other entry.
C10_NameToCodepoint ==
    (fres.op = "codepoint_by_name" /\ ~fres.raised) =>
        LET names == parse_post(font).glyph_id_to_name
            cps == parse_cmap(font).glyph_id_to_codepoint
        IN /\ \A g \in Named(font) :
                 /\ names[g] \in DOMAIN fres.name_to_codepoint
                 /\ fres.name_to_codepoint[names[g]] = cps[g]
           /\ \A n \in DOMAIN fres.name_to_codepoint :
                 \E g \in Named(font) : names[g] = n

\* C10 amended: codepoint_by_name() maps the post name of every glyph that
\* has one and has a cmap codepoint other than 0 to the codepoint of the
\* last such glyph of that name, and has no other entry.
C10_NameToLastCodepoint ==
    (fres.op = "codepoint_by_name" /\ ~fres.raised) =>
        LET names == parse_post(font).glyph_id_to_name
            cps == parse_cmap(font).glyph_id_to_codepoint
        IN /\ \A g \in Named(font) :
                 /\ names[g] \in DOMAIN fres.name_to_codepoint
                 /\ fres.name_to_codepoint[names[g]] =
                       cps[Max({h \in Named(font) : names[h] = names[g]})]
           /\ \A n \in DOMAIN fres.name_to_codepoint :
                 \E g \in Named(font) : names[g] = n

\* codepoint_by_name() returned a map with an entry, of a font in which a
\* glyph has a post name and no codepoint, or the codepoint 0
C10_Witness ==
    /\ fres.op = "codepoint_by_name"
    /\ ~fres.raised
    /\ fres.name_to_codepoint # EmptyMap
    /\ \E g \in DOMAIN parse_post(font).glyph_id_to_name : g \notin Named(font)

\* C11: Font(data) raises when the sfntVersion is neither that of TrueType
\* nor that of CFF outlines, when maxp, name or head is missing from the
\* table directory, and when head's magic number is wrong; no Font exists
\* after it raised.
C11_CtorFails ==
    fres.op = "Font" =>
        /\ (\/ data.sfnt_version \notin {SfntTtf, SfntOtf}
            \/ \E t \in {"maxp", "name", "head"} :
                  \A i \in 1..Len(data.directory) : data.directory[i] # t
            \/ data.magic # HeadMagic) => fres.raised # "none"
        /\ fres.raised # "none" => font = NoFont

\* Font() raised on a TrueType header followed by an empty table directory
C11_Witness ==
    /\ fres.op = "Font"
    /\ data.sfnt_version = SfntTtf
    /\ data.directory = << >>
    /\ fres.raised = "KeyError"
    /\ font = NoFont

\* the calls of a Reader that return data
ReadOps == {"read", "read_string", "read_u8"} \cup TypedReads

\* C12: a read returns no byte from beyond the end of the view, and a read
\* that asks for more bytes than are left between the cursor and the end of
\* the view raises.
C12_ShortReadRaises ==
    fres.op \in ReadOps =>
        /\ fres.raised = "none" =>
              reader.pos <= Max({fres.from, Len(reader.data)})
        /\ fres.from + fres.asked > Len(reader.data) => fres.raised # "none"

\* the subtable the last parse_cmap() read
Chosen == cmap_table.subtables[fres.offset]

\* the <<codepoint, glyph_id>> of one format-12 group
GroupPairs(g) == {<<c, g[3] + (c - g[1])>> : c \in g[1]..g[2]}

\* the <<codepoint, glyph_id>> of one format-4 segment
SegmentPairs(g) ==
    IF g[4] # 0 \/ (g[1] = LastCode /\ g[2] = LastCode) THEN {}
    ELSE {<<c, (c + g[3]) % U16>> : c \in g[2]..g[1]}

\* the pairs of each group or segment of a subtable up to its last segment,
\* in the order of the subtable
PairsOf(subtable) ==
    IF subtable.format = 12
    THEN [k \in 1..Len(subtable.groups) |-> GroupPairs(subtable.groups[k])]
    ELSE LET segs == subtable.segments
             stop == {k \in 1..Len(segs) :
                         segs[k][1] = LastCode /\ segs[k][2] = LastCode}
             n == IF stop = {} THEN Len(segs)
                  ELSE (CHOOSE k \in stop : \A j \in stop : k <= j) - 1
         IN [k \in 1..n |-> SegmentPairs(segs[k])]

\* no codepoint and no glyph id is in two pairs of the subtable
AssignedOnce(subtable) ==
    LET pairs == PairsOf(subtable)
        all == UNION {pairs[k] : k \in DOMAIN pairs}
    IN /\ \A k, j \in DOMAIN pairs : k # j => pairs[k] \cap pairs[j] = {}
       /\ \A x, y \in all : (x[1] = y[1] \/ x[2] = y[2]) => x = y

OffsetsOf(records, p, e) ==
    {records[i][3] : i \in {i \in 1..Len(records) :
                               records[i][1] = p /\ records[i][2] = e}}

\* C19: parse_cmap reads the subtable of a record of platform 0 and
\* encoding 4 if there is one, of a record of platform 0 and encoding 3
\* otherwise, and raises if there is neither; when no two records have the
\* same platform and encoding, the records in any other order give the same
\* subtable.
C19_SubtableChoice ==
    fres.op = "parse_cmap" =>
        LET records == cmap_table.records
            first == OffsetsOf(records, 0, 4)
            second == OffsetsOf(records, 0, 3)
        IN /\ first # {} => fres.offset \in first
           /\ (first = {} /\ second # {}) => fres.offset \in second
           /\ (first = {} /\ second = {}) =>
                 fres.offset = 0 /\ fres.raised = "ValueError"
           /\ fres.offset # 0 =>
                 fres.raised = ParseCmap([records |-> << <<0, 4, fres.offset>> >>,
                                          subtables |-> cmap_table.subtables]).raised
                 /\ fres.cmap = ParseCmap([records |-> << <<0, 4, fres.offset>> >>,
                                           subtables |-> cmap_table.subtables]).cmap
           /\ (\A i, j \in 1..Len(records) :
                   (records[i][1] = records[j][1]
                       /\ records[i][2] = records[j][2]) => i = j) =>
                 \A order \in Permutations(1..Len(records)) :
                     UnicodeTableOffset(
                         0, [i \in 1..Len(records) |-> records[order[i]]])
                     = fres.offset

\* parse_cmap() read the subtable of the record of platform 0 and encoding
\* 4 that stands behind a record of platform 0 and encoding 3 and a record
\* of another platform
C19_Witness ==
    /\ fres.op = "parse_cmap"
    /\ cmap_table.records = << <<0, 3, 1>>, <<3, 4, 1>>, <<0, 4, 2>> >>
    /\ fres.offset = 2
    /\ fres.raised = "none"
    /\ fres.cmap.codepoint_to_glyph_id = (1 :> 2)

\* C20: parse_cmap of a format-4 subtable maps every codepoint cp of every
\* segment that is not (0xFFFF, 0xFFFF) and has id_range_offset 0 to the
\* glyph id (cp + id_delta) mod 65536, wherever the segment stands in the
\* list; codepoints that another segment covers as well are left out.
C20_SegmentsMapped ==
    (fres.op = "parse_cmap" /\ fres.raised = "none" /\ Chosen.format = 4) =>
        LET segs == Chosen.segments
            c2g == fres.cmap.codepoint_to_glyph_id
        IN \A k \in 1..Len(segs) :
              (segs[k][4] = 0
                  /\ ~(segs[k][1] = LastCode /\ segs[k][2] = LastCode)) =>
              \A cp \in segs[k][2]..segs[k][1] :
                  (\A j \in 1..Len(segs) :
                       (j # k /\ segs[j][2] <= cp /\ cp <= segs[j][1]) =>
                           segs[j][2] = LastCode) =>
                  /\ cp \in DOMAIN c2g
                  /\ c2g[cp] = (cp + segs[k][3]) % U16

\* a stand-in for the standard name list of the post table, which the
\* program does not have
StandardName(name_index) == IF name_index = 0 THEN ".notdef" ELSE "standard"

\* C17: parse_post() of a version-2 post table gives every glyph the table
\* lists a name: the standard name of its name_index below 258, the
\* appended string number name_index - 258 otherwise.
C17_EveryGlyphNamed ==
    (fres.op = "parse_post" /\ font.post_version = 2 /\ ~fres.raised) =>
        \A g \in 0..(Len(font.post_index) - 1) :
            /\ g \in DOMAIN fres.glyph_id_to_name
            /\ fres.glyph_id_to_name[g] =
                  IF font.post_index[g + 1] < FirstCustomName
                  THEN StandardName(font.post_index[g + 1])
                  ELSE font.post_names[font.post_index[g + 1]
                                           - FirstCustomName + 1]

\* C18: parse_post() of a version-2 post table in which no glyph has a
\* name_index of 258 or more returns an empty map and does not raise.
C18_NoCustomNames ==
    (/\ fres.op = "parse_post"
     /\ font.post_version = 2
     /\ \A g \in 1..Len(font.post_index) :
           font.post_index[g] < FirstCustomName) =>
        /\ ~fres.raised
        /\ fres.glyph_id_to_name = EmptyMap

\* C16: once a lazy parser has returned, whatever it returned, no later call
\* runs its body again, every later call of it returns what is stored, and
\* what is stored is not written again.
C16_ParsedOnce ==
    [][\A name \in DOMAIN cached_tables \cap LazyNames :
          /\ name \notin fres'.ran
          /\ cached_tables'[name] = cached_tables[name]
          /\ fres'.op = name =>
                (fres'.raised = "none" /\ fres'.table = cached_tables[name])]_vars

\* the components Glyph._composite_outline reads from the reader start,
\* in the order it reads them: [glyph_id, ts] of each component whose
\* glyph the table has
RECURSIVE ComponentsRead(_, _)
ComponentsRead(glyf, start) ==
    LET flag == read_u16(start)
        glyph_id == read_u16(flag.reader)
        ts == ReadTransform(glyph_id.reader, flag.value)
        valid == GlyfGet(glyf, glyph_id.value) # {}
    IN IF flag.raised # "none" \/ glyph_id.raised # "none" THEN << >>
       ELSE (IF valid
             THEN <<[glyph_id |-> glyph_id.value, ts |-> ts.value]>>
             ELSE << >>)
            \o (IF ~Bit(flag.value, MORE_COMPONENTS) THEN << >>
                ELSE IF valid THEN ComponentsRead(glyf, ts.reader)
                ELSE ComponentsRead(glyf, glyph_id.reader))

\* the calls cmds with every point mapped through ts and then through tr
Mapped(tr, ts, cmds) ==
    [i \in 1..Len(cmds) |->
       Cmd(cmds[i].op,
           [j \in 1..Len(cmds[i].pts) |->
              Apply(tr, Apply(ts, cmds[i].pts[j]))])]

\* the outlines of components[index ..], each built with no transform and
\* mapped through its component's matrix and then through tr, one after
\* the other
RECURSIVE ChildOutlines(_, _, _, _)
ChildOutlines(glyf, components, index, tr) ==
    IF index > Len(components) THEN << >>
    ELSE Mapped(tr, components[index].ts,
                build_outline(glyf, glyf[components[index].glyph_id + 1],
                              identity, 0).cmds)
         \o ChildOutlines(glyf, components, index + 1, tr)

\* C14: the calls build_outline makes of the builder for a composite glyph
\* and a transform T are the calls of its children's outlines, in the order
\* the components are read, each child's points mapped through its
\* component's matrix and then through T (T the identity when none is given)
C14_CompositeIsChildren ==
    (/\ fres.op = "build_outline"
     /\ glyphs[fres.glyph_id + 1].contours_count < 0
     /\ fres.raised = "none")
    => fres.cmds
       = ChildOutlines(glyphs,
                       ComponentsRead(glyphs,
                           [data |-> glyphs[fres.glyph_id + 1].data,
                            pos |-> 0]),
                       1, fres.tr)

\* C14 witness: a composite of a composite is built with a transform that is
\* not the identity; the inner composite has two components with matrices
\* that differ, and each of them draws
C14_Witness ==
    /\ fres.op = "build_outline"
    /\ fres.glyph_id = 3
    /\ fres.raised = "none"
    /\ fres.tr # identity
    /\ LET inner == ComponentsRead(glyphs, [data |-> glyphs[3].data,
                                            pos |-> 0])
       IN /\ Len(inner) = 2
          /\ inner[1].ts # inner[2].ts
          /\ \A i \in 1..2 :
                build_outline(glyphs, glyphs[inner[i].glyph_id + 1],
                              identity, 0).cmds # << >>
    /\ ComponentsRead(glyphs, [data |-> glyphs[4].data, pos |-> 0])
       = <<[glyph_id |-> 2,
            ts |-> Transform(Whole(-1), Whole(0), Whole(1),
                             Whole(0), Whole(-1), Whole(0))]>>

\* the points given to move_to, line_to and quad_to in the calls cmds
PointsOf(cmds) ==
    UNION {{cmds[i].pts[j] : j \in 1..Len(cmds[i].pts)} :
             i \in 1..Len(cmds)}

\* p lies in the box b
Within(p, b) ==
    /\ ~Less(p.x, b.min.x) /\ ~Less(b.max.x, p.x)
    /\ ~Less(p.y, b.min.y) /\ ~Less(b.max.y, p.y)

\* C15: when bbox() of a glyph returns (min, max), every point that
\* build_outline with no transform gives to move_to, line_to and quad_to
\* lies between min and max in x and in y
C15_BboxHoldsOutline ==
    (fres.op = "bbox" /\ fres.raised = "none" /\ fres.box # {})
    => \A p \in PointsOf(build_outline(glyphs, glyphs[fres.glyph_id + 1],
                                       identity, 0).cmds) :
          Within(p, The(fres.box))

\* the endpoints of the contours of a simple glyph, as the decoder reads
\* them
EndpointsOf(glyph) ==
    ReadEndpoints([data |-> glyph.data, pos |-> 0], glyph.contours_count).value

\* C21: the decoder of a simple glyph of more than one point yields
\* exactly point_count = last endpoint + 1 GlyphPoints whenever it ends
\* without raising: a run that would pass point_count is cut to what is
\* left.
C21_ExactlyPointCount ==
    (/\ fres.op = "simple_outline_points"
     /\ fres.raised = "none"
     /\ glyphs[fres.glyph_id + 1].contours_count > 0
     /\ LET e == EndpointsOf(glyphs[fres.glyph_id + 1])
        IN e[Len(e)] + 1 > 1)
    => LET e == EndpointsOf(glyphs[fres.glyph_id + 1])
       IN Len(fres.points) = e[Len(e)] + 1

\* seq cut into pieces after every index where ends holds; what follows
\* the last such index is the last piece
RECURSIVE Pieces(_, _)
Pieces(seq, ends) ==
    IF seq = << >> THEN << >>
    ELSE LET n == IF \E i \in 1..Len(ends) : ends[i]
                  THEN CHOOSE i \in 1..Len(ends) :
                          ends[i] /\ \A j \in 1..i - 1 : ~ends[j]
                  ELSE Len(seq)
         IN <<SubSeq(seq, 1, n)>>
            \o Pieces(SubSeq(seq, n + 1, Len(seq)),
                      SubSeq(ends, n + 1, Len(ends)))

\* the GlyphPoints of each contour: a contour ends with its point of
\* last = True
ContoursOf(points) ==
    Pieces(points, [i \in 1..Len(points) |-> points[i].last])

\* the calls made of the builder for each contour: the loop calls close()
\* once for each point of last = True, after that contour's other calls
RunsOf(cmds) ==
    Pieces(cmds, [i \in 1..Len(cmds) |-> cmds[i].op = "close"])

\* the point halfway between two points
Mid(a, b) ==
    Point(Mul(Add(a.x, b.x), Num(1, 1)), Mul(Add(a.y, b.y), Num(1, 1)))

\* build_outline was called on a glyph that is not a composite
SimpleCall ==
    /\ fres.op = "build_outline"
    /\ glyphs[fres.glyph_id + 1].contours_count >= 0

\* the contours of the glyph of the call
CallContours ==
    ContoursOf(simple_outline_points(glyphs[fres.glyph_id + 1]).points)

\* C22 as stated: a contour that starts with an off-curve point and has a
\* next point gets its move_to at the midpoint of the two, whatever the
\* next point is.
C22_MoveToMidpoint ==
    SimpleCall =>
      LET contours == CallContours
          runs == RunsOf(fres.cmds)
      IN \A k \in 1..Len(contours) :
            LET c == contours[k]
            IN (Len(c) >= 2 /\ ~c[1].on_curve) =>
                 /\ k <= Len(runs)
                 /\ runs[k][1]
                    = Cmd("move_to",
                          <<Apply(fres.tr, Mid(c[1].coord, c[2].coord))>>)

\* C22 amended: a contour that starts with an off-curve point and has a
\* next point gets its move_to at the midpoint of the two when the next
\* point is off-curve, and at the next point itself when it is on-curve.
C22_MoveToMidpointOrNext ==
    SimpleCall =>
      LET contours == CallContours
          runs == RunsOf(fres.cmds)
      IN \A k \in 1..Len(contours) :
            LET c == contours[k]
            IN (Len(c) >= 2 /\ ~c[1].on_curve) =>
                 /\ k <= Len(runs)
                 /\ runs[k][1]
                    = Cmd("move_to",
                          <<Apply(fres.tr,
                                  IF c[2].on_curve THEN c[2].coord
                                  ELSE Mid(c[1].coord, c[2].coord))>>)

\* C22 witness: an outline was built of a glyph with a contour of off, on
\* and a contour of off, off, and each got a move_to
C22_Witness ==
    /\ SimpleCall
    /\ fres.raised = "none"
    /\ \E k \in 1..Len(CallContours) :
          /\ Len(CallContours[k]) >= 2
          /\ ~CallContours[k][1].on_curve /\ CallContours[k][2].on_curve
          /\ RunsOf(fres.cmds)[k][1].op = "move_to"
    /\ \E k \in 1..Len(CallContours) :
          /\ Len(CallContours[k]) >= 2
          /\ ~CallContours[k][1].on_curve /\ ~CallContours[k][2].on_curve
          /\ RunsOf(fres.cmds)[k][1].op = "move_to"

\* the index of the point of contour c at which its move_to is called:
\* the first point if it is on-curve, the second if not
StartOfContour(c) == IF c[1].on_curve THEN 1 ELSE 2

\* what C23 says the point c[i] emits, for the point c[i - 1] before it
SegmentOf(c, i, tr) ==
    IF c[i].on_curve
    THEN IF c[i - 1].on_curve
         THEN <<Cmd("line_to", <<Apply(tr, c[i].coord)>>)>>
         ELSE <<Cmd("quad_to", <<Apply(tr, c[i - 1].coord),
                                 Apply(tr, c[i].coord)>>)>>
    ELSE IF c[i - 1].on_curve THEN << >>
    ELSE <<Cmd("quad_to", <<Apply(tr, c[i - 1].coord),
                            Apply(tr, Mid(c[i - 1].coord, c[i].coord))>>)>>

\* the segments of the points of c after the one of its move_to
SegmentsOf(c, tr) ==
    Join([n \in 1..Len(c) - StartOfContour(c) |->
            SegmentOf(c, StartOfContour(c) + n, tr)])

\* C23: within a contour, after its move_to, on after on emits
\* line_to(p), on after off c emits quad_to(c, p), off after off c emits
\* quad_to(c, midpoint(c, p)), off after on emits nothing; an off-curve
\* point is the c of the point after it.
C23_SegmentRules ==
    SimpleCall =>
      LET contours == CallContours
          runs == RunsOf(fres.cmds)
      IN \A k \in 1..Len(contours) :
            LET c == contours[k]
                segments == SegmentsOf(c, fres.tr)
            IN Len(c) >= StartOfContour(c) =>
                 /\ k <= Len(runs)
                 /\ runs[k][1].op = "move_to"
                 /\ Len(runs[k]) >= 1 + Len(segments)
                 /\ SubSeq(runs[k], 2, 1 + Len(segments)) = segments

\* C23 witness: an outline was built of a contour on, off, off, on, whose
\* points after the first emit nothing, a quad_to to a midpoint and a
\* quad_to to the point
C23_Witness ==
    /\ SimpleCall
    /\ fres.raised = "none"
    /\ \E k \in 1..Len(CallContours) :
          LET c == CallContours[k]
          IN /\ Len(c) = 4
             /\ c[1].on_curve /\ ~c[2].on_curve
             /\ ~c[3].on_curve /\ c[4].on_curve
             /\ c[2].coord # c[3].coord
             /\ Len(SegmentsOf(c, fres.tr)) = 2
             /\ RunsOf(fres.cmds)[k][2].op = "quad_to"
             /\ RunsOf(fres.cmds)[k][3].op = "quad_to"

\* a contour that is whole (its last point has last = True) and whose
\* first and last points are on-curve
OnToOn(c) == c[1].on_curve /\ c[Len(c)].on_curve /\ c[Len(c)].last

\* the later on-curve points and the implicit midpoints of contour c
LaterPoints(c) ==
    Cardinality({i \in 2..Len(c) : c[i].on_curve})
    + Cardinality({i \in 2..Len(c) : ~c[i].on_curve /\ ~c[i - 1].on_curve})

\* C24 as stated: a contour whose first and last points are on-curve is
\* emitted as move_to(first point), one line_to or quad_to for each later
\* on-curve point and each implicit midpoint, and close(), with nothing
\* between the last point's segment and close().
C24_NoClosingSegment ==
    SimpleCall =>
      LET contours == CallContours
          runs == RunsOf(fres.cmds)
      IN \A k \in 1..Len(contours) :
            LET c == contours[k]
            IN OnToOn(c) =>
                 /\ k <= Len(runs)
                 /\ runs[k]
                    = <<Cmd("move_to", <<Apply(fres.tr, c[1].coord)>>)>>
                      \o SegmentsOf(c, fres.tr) \o <<Cmd("close", << >>)>>

\* C24 amended: such a contour is emitted as move_to(first point), one
\* line_to or quad_to for each later on-curve point and each implicit
\* midpoint, one line_to(first point) back to the start, and close().
C24_ClosingLine ==
    SimpleCall =>
      LET contours == CallContours
          runs == RunsOf(fres.cmds)
      IN \A k \in 1..Len(contours) :
            LET c == contours[k]
                segments == SegmentsOf(c, fres.tr)
            IN OnToOn(c) =>
                 /\ k <= Len(runs)
                 /\ runs[k]
                    = <<Cmd("move_to", <<Apply(fres.tr, c[1].coord)>>)>>
                      \o segments
                      \o <<Cmd("line_to", <<Apply(fres.tr, c[1].coord)>>),
                           Cmd("close", << >>)>>
                 /\ Len(segments) = LaterPoints(c)

\* C24 witness: an outline was built of one contour of four on-curve
\* points and move_to, four line_to and close were called
C24_Witness ==
    /\ SimpleCall
    /\ fres.raised = "none"
    /\ Len(CallContours) = 1
    /\ Len(CallContours[1]) = 4
    /\ \A i \in 1..4 : CallContours[1][i].on_curve
    /\ [i \in 1..Len(fres.cmds) |-> fres.cmds[i].op]
       = <<"move_to", "line_to", "line_to", "line_to", "line_to", "close">>

\* the points a run may use for contour c: its points and the midpoints
\* of two of them, put through tr
PointsFor(c, tr) ==
    {Apply(tr, c[i].coord) : i \in 1..Len(c)}
    \cup {Apply(tr, Mid(c[i].coord, c[j].coord)) :
             i \in 1..Len(c), j \in 1..Len(c)}

\* the calls r are one run for contour c: at most one move_to, which is
\* first, then line_to and quad_to, then one close; the segment before
\* close ends where move_to started; every point is one of c's
OneRun(r, c, tr) ==
    /\ r[Len(r)].op = "close"
    /\ \A i \in 1..Len(r) - 1 : r[i].op # "close"
    /\ \A i \in 2..Len(r) : r[i].op # "move_to"
    /\ r[1].op = "move_to" =>
          /\ Len(r) >= 3
          /\ r[Len(r) - 1].pts[Len(r[Len(r) - 1].pts)] = r[1].pts[1]
    /\ \A i \in 1..Len(r) :
          \A n \in 1..Len(r[i].pts) : r[i].pts[n] \in PointsFor(c, tr)

\* C29: the calls made for a simple glyph are one run for each contour:
\* at most one move_to, which comes first, then line_to and quad_to, then
\* exactly one close(); the last segment before close() ends at the
\* move_to point; no call uses a point of another contour.
C29_OneRunPerContour ==
    (SimpleCall /\ fres.raised = "none") =>
      /\ Len(RunsOf(fres.cmds)) <= Len(CallContours)
      /\ \A k \in 1..Len(RunsOf(fres.cmds)) :
            OneRun(RunsOf(fres.cmds)[k], CallContours[k], fres.tr)

\* the same holds of the glyphs whose every point is in a contour (no flag
\* run passes point_count)
WholeContoursOneRun ==
    (/\ SimpleCall /\ fres.raised = "none"
     /\ \A k \in 1..Len(CallContours) :
           CallContours[k][Len(CallContours[k])].last) =>
      /\ Len(RunsOf(fres.cmds)) = Len(CallContours)
      /\ \A k \in 1..Len(RunsOf(fres.cmds)) :
            OneRun(RunsOf(fres.cmds)[k], CallContours[k], fres.tr)

\* build_outline was called on a composite glyph
CompositeCall ==
    /\ fres.op = "build_outline"
    /\ glyphs[fres.glyph_id + 1].contours_count < 0

\* the loop of a composite glyph as C25 has it: a component whose glyph
\* the table lacks draws nothing and its arguments and scale are passed
\* over, so that the component after it is read where it starts; every
\* other component is decoded and drawn as the code does it
RECURSIVE SkippingOutline(_, _, _)
SkippingOutline(glyf, start, tr) ==
    LET flag == read_u16(start)
        glyph_id == read_u16(flag.reader)
        ts == ReadTransform(glyph_id.reader, flag.value)
        valid == GlyfGet(glyf, glyph_id.value) # {}
        child == IF valid
                 THEN build_outline(glyf, The(GlyfGet(glyf, glyph_id.value)),
                                    matmul(tr, ts.value), 1)
                 ELSE [raised |-> "none", cmds |-> << >>]
    IN IF flag.raised # "none"
       THEN [raised |-> flag.raised, cmds |-> << >>]
       ELSE IF glyph_id.raised # "none"
       THEN [raised |-> glyph_id.raised, cmds |-> << >>]
       ELSE IF ~valid /\ ~Bit(flag.value, MORE_COMPONENTS)
       THEN [raised |-> "none", cmds |-> << >>]
       ELSE IF ts.raised # "none"
       THEN [raised |-> ts.raised, cmds |-> << >>]
       ELSE IF child.raised # "none" \/ ~Bit(flag.value, MORE_COMPONENTS)
       THEN child
       ELSE Then(child, SkippingOutline(glyf, ts.reader, tr))

\* C25: a component that names a glyph the table lacks draws nothing and
\* does not abort the outline, and the components after it are decoded as
\* they would be if its glyph were there: its arguments and scale are
\* passed over and the next flag and glyph id are read where they start.
C25_InvalidChildSkipped ==
    CompositeCall =>
      LET r == SkippingOutline(glyphs,
                               [data |-> glyphs[fres.glyph_id + 1].data,
                                pos |-> 0],
                               fres.tr)
      IN fres.raised = r.raised /\ fres.cmds = r.cmds

\* the two arguments of a component whose ARGS_ARE_XY_VALUES is clear,
\* read as two bytes or two words and dropped: [reader, raised, value]
PointArguments(start, flag) ==
    IF Bit(flag, ARGS_ARE_XY_VALUES)
    THEN [reader |-> start, raised |-> "none", value |-> << >>]
    ELSE IF Bit(flag, ARG_1_AND_2_ARE_WORDS)
    THEN ReadAll(start, <<"read_i16", "read_i16">>)
    ELSE ReadAll(start, <<"read_i8", "read_i8">>)

\* the loop of a composite glyph as C26 has it: the two arguments of a
\* component are read whether they are an offset or two point numbers,
\* and two point numbers leave the translation 0; everything else as the
\* code does it
RECURSIVE AttachingOutline(_, _, _)
AttachingOutline(glyf, start, tr) ==
    LET flag == read_u16(start)
        glyph_id == read_u16(flag.reader)
        valid == GlyfGet(glyf, glyph_id.value) # {}
        args == PointArguments(glyph_id.reader, flag.value)
        ts == ReadTransform(args.reader, flag.value)
        child == build_outline(glyf, The(GlyfGet(glyf, glyph_id.value)),
                               matmul(tr, ts.value), 1)
    IN IF flag.raised # "none"
       THEN [raised |-> flag.raised, cmds |-> << >>]
       ELSE IF glyph_id.raised # "none"
       THEN [raised |-> glyph_id.raised, cmds |-> << >>]
       ELSE IF ~valid
       THEN IF Bit(flag.value, MORE_COMPONENTS)
            THEN AttachingOutline(glyf, glyph_id.reader, tr)
            ELSE [raised |-> "none", cmds |-> << >>]
       ELSE IF args.raised # "none"
       THEN [raised |-> args.raised, cmds |-> << >>]
       ELSE IF ts.raised # "none"
       THEN [raised |-> ts.raised, cmds |-> << >>]
       ELSE IF child.raised # "none" \/ ~Bit(flag.value, MORE_COMPONENTS)
       THEN child
       ELSE Then(child, AttachingOutline(glyf, ts.reader, tr))

\* C26: a component whose ARGS_ARE_XY_VALUES is clear has its two
\* arguments consumed and its child drawn with translation 0, and its
\* scale and the components after it are read where they start.
C26_PointArgumentsConsumed ==
    CompositeCall =>
      LET r == AttachingOutline(glyphs,
                                [data |-> glyphs[fres.glyph_id + 1].data,
                                 pos |-> 0],
                                fres.tr)
      IN fres.raised = r.raised /\ fres.cmds = r.cmds

\* C28: build_outline, and bbox with it, comes to an end for every glyph
\* of every table, a composite that names itself or lies on a cycle of
\* components included: the nesting of the calls never grows until the
\* interpreter stops it with RecursionError.
C28_OutlineTerminates ==
    fres.op \in {"build_outline", "bbox"} => fres.raised # "RecursionError"

\* the letter of the call op of builder b
LetterOf(b, op) ==
    LET small == [move_to |-> "m", line_to |-> "l", quad_to |-> "q",
                  cubic_to |-> "c", close |-> "Z"]
        capital == [move_to |-> "M", line_to |-> "L", quad_to |-> "Q",
                    cubic_to |-> "C", close |-> "Z"]
    IN IF b.relative THEN small[op] ELSE capital[op]

\* the text of the point p of a call of builder b: a space if the point
\* follows another and its rounded x is >= 0, x, a ',' (always, or only
\* before a rounded y >= 0) and y
PointText(b, p, follows, always) ==
    LET q == Apply(b.tr, p)
        pp == IF b.relative THEN Minus(q, b.point_prev) ELSE q
        x == Round(pp.x, b.precision)
        y == Round(pp.y, b.precision)
    IN (IF follows /\ NotNegative(x) THEN <<" ">> ELSE << >>)
       \o Format(x, b.precision)
       \o (IF always \/ NotNegative(y) THEN <<",">> ELSE << >>)
       \o Format(y, b.precision)

\* the text of the call op with the points pts
CallText(b, op, pts, always) ==
    <<LetterOf(b, op)>>
    \o Join([j \in 1..Len(pts) |-> PointText(b, pts[j], j > 1, always)])

\* C27 as stated: every point is written as its x, a ',' and its y, for
\* every sign of x and y, with a space before a point that follows
\* another in the same command only when its rounded x is >= 0.
C27_CommaAlways ==
    [][builder'.file
       = builder.file \o CallText(builder, fres'.op, fres'.pts, TRUE)]_vars

\* C27 amended: every point is written as its x and its y, with a ','
\* between them only when the rounded y is >= 0, and with a space before
\* a point that follows another in the same command only when its
\* rounded x is >= 0.
C27_CommaUnlessNegative ==
    [][builder'.file
       = builder.file \o CallText(builder, fres'.op, fres'.pts, FALSE)]_vars

\* C27 witness: cubic_to was called with (2, -1.5), (-1.5, 0.125) and
\* (-1/256, 2) on a builder of absolute coordinates and no transform, and
\* C2-1.5-1.5,0.12 -0,2 was written
C27_Witness ==
    /\ fres.op = "cubic_to"
    /\ fres.pts = <<Point(Whole(2), Num(-3, 1)), Point(Num(-3, 1), Num(1, 3)),
                    Point(Num(-1, 8), Whole(2))>>
    /\ builder.file
       = <<"C", "2", "-", "1", ".", "5", "-", "1", ".", "5", ",", "0", ".",
           "1", "2", " ", "-", "0", ",", "2">>

\* C30: every icon name get_icon returned an Icon for when update() was
\* called still gets one when that update() has ended, however it ended:
\* update() deletes no row.
C30_StillResolves ==
    (pc = "idle" /\ outcome # "none") =>
      \A name \in resolved :
         Resolves(name, get_fonts(font_descs, conn), conn)

\* a pass of update() deletes no row of icons, and a row keeps its
\* codepoint and svg unless the pass upserts its name
RowsKept ==
    [][pc = "loop" =>
         \A r \in conn.icons :
            \E n \in conn'.icons :
               /\ n.name = r.name /\ n.id = r.id
               /\ \/ n = r
                  \/ \E k \in 1..Len(MetadataNames(Manifest[idx])) :
                        r.name = FullName(Manifest[idx],
                                          MetadataNames(Manifest[idx])[k][1])]_vars

=============================================================================
